---- MODULE Spec2Model ----
(***************************************************************************)
(* Monty Hall simulator: the game logic (MontyHallGame, src/src/js/game.js) *)
(* and the chunked, cancellable batch runner (BatchSimulator,               *)
(* src/src/js/ui.js).                                                       *)
(*                                                                          *)
(* Two specifications share the module:                                     *)
(*   SpecGame  one MontyHallGame object driven through reset / selectDoor / *)
(*             makeChoice, and BatchSimulator.runGameChunk applied to drawn *)
(*             arguments;                                                   *)
(*   Spec      one BatchSimulator object: runSimulation() calls, the        *)
(*             continuations of each call on the JavaScript event loop, and *)
(*             stopSimulation() calls.                                      *)
(*                                                                          *)
(* JavaScript values: null doors are NullDoor, the tri-state `won` is one   *)
(* of "null", "true", "false", a number that is a quotient (a win rate) is  *)
(* the fraction [num, den] and 0/0 (NaN) is the fraction with den = 0.      *)
(***************************************************************************)
EXTENDS Integers, Sequences, FiniteSets, TLC

VARIABLES
  game,               \* SpecGame: the MontyHallGame object's fields
  ret,                \* SpecGame: the last selectDoor / makeChoice call and what it returned
  chunkOut,           \* SpecGame: what the last runGameChunk call returned
  isRunning,          \* BatchSimulator.isRunning
  currentSimulation,  \* BatchSimulator.currentSimulation: 0 (null) or the run whose results object it is
  run,                \* per runSimulation() call: its locals and its position
  active,             \* the call that holds the thread (0: the thread is free)
  microtasks,         \* the calls whose awaited promise has settled, in settling order
  timers,             \* the calls suspended in sleep(delayMs), in setTimeout order
  hist,               \* per call: what an observer of the call has seen
  exported,           \* what the last exportResults() call returned or threw
  analyzed,           \* what the StatisticalAnalyzer calls made so far returned or threw
  ui,                 \* SpecUi: the batch panel of MontyHallUI
  app,                \* SpecApp: the game panel of MontyHallUI and its handlers in flight
  stats,              \* GameStats.stats, the lifetime statistics
  statsCall,          \* SpecLifetime: the last GameStats call
  milestones          \* SpecMilestones: a history and what findConvergenceMilestones made of it

vars == <<game, ret, chunkOut, isRunning, currentSimulation, run, active, microtasks, timers, hist,
         exported, analyzed, ui, app, stats, statsCall, milestones>>
gameVars == <<game, ret, chunkOut>>
batchVars == <<isRunning, currentSimulation, run, active, microtasks, timers, hist>>
toolVars == <<exported, analyzed>>
pageVars == <<ui, app, stats, statsCall, milestones>>

----------------------------------------------------------------------------
(* Bounds of the model *)

MaxGames == 3      \* the games asked for, summed over the runSimulation() calls made
MaxChunk == 2      \* chunkSize is drawn from 1..MaxChunk; runGameChunk counts from 0..MaxChunk
MaxRuns == 2       \* runSimulation() calls made on the one BatchSimulator
MaxAnalyses == 2   \* StatisticalAnalyzer calls made
MaxPoints == 4     \* points of a history handed to findConvergenceMilestones
HistoryChunk == 3  \* the chunkSize of the run that left the history
MaxClicks == 4     \* door clicks and choices accepted by the game panel
MaxRecorded == 2   \* games recorded by direct recordGame() calls
MaxPasses == 4     \* passes of runStrategyBatch's loop followed per call (a loop whose
                   \* chunkSize is not positive never ends)

----------------------------------------------------------------------------
(* JavaScript values *)

NullDoor == -1

JsBool(b) == IF b THEN "true" ELSE "false"

Min(a, b) == IF a < b THEN a ELSE b

Frac(n, d) == [num |-> n, den |-> d]

\* a / b == c / d as numbers; NaN (den = 0) equals nothing
FracEq(x, y) == x.den # 0 /\ y.den # 0 /\ x.num * y.den = y.num * x.den

IsNaN(x) == x.den = 0 /\ x.num = 0

RECURSIVE Gcd(_, _)
Gcd(a, b) == IF b = 0 THEN a ELSE Gcd(b, a % b)

\* the same quotient in lowest terms (NaN and the infinities stay as they are)
Reduce(x) ==
  IF x.den = 0 \/ x.num = 0 THEN x
  ELSE LET g == Gcd(IF x.num < 0 THEN -x.num ELSE x.num, x.den)
       IN  Frac(x.num \div g, x.den \div g)

\* x <= y as numbers; a comparison with NaN is false
FracLe(x, y) == ~IsNaN(x) /\ ~IsNaN(y) /\ x.num * y.den <= y.num * x.den

\* a number of the form base + sign * sqrt(zsq * rad), with sign in {-1, 0, 1}
\* and base, zsq, rad quotients: what p - z * Math.sqrt(r) and the like yield.
\* rad with den = 0 and num > 0 is Infinity.
Surd(base, sign, zsq, rad) == [base |-> base, sign |-> sign, zsq |-> zsq, rad |-> rad]

Exact(x) == Surd(x, 0, Frac(1, 1), Frac(0, 1))

SurdNaN(x) == IsNaN(x.base) \/ (x.sign # 0 /\ (IsNaN(x.rad) \/ IsNaN(x.zsq)))

\* x < 0, for a base in 0..1
SurdLtZero(x) ==
  /\ ~SurdNaN(x)
  /\ x.sign = -1
  /\ x.base.num * x.base.num * x.zsq.den * x.rad.den
       < x.zsq.num * x.rad.num * x.base.den * x.base.den

\* x > 1, for a base in 0..1
SurdGtOne(x) ==
  /\ ~SurdNaN(x)
  /\ x.sign = 1
  /\ x.zsq.num * x.rad.num * x.base.den * x.base.den
       > (x.base.den - x.base.num) * (x.base.den - x.base.num) * x.zsq.den * x.rad.den

\* Math.max(0, x) and Math.min(1, x); both are NaN for a NaN
MathMax0(x) == IF SurdNaN(x) THEN x ELSE IF SurdLtZero(x) THEN Exact(Frac(0, 1)) ELSE x
MathMin1(x) == IF SurdNaN(x) THEN x ELSE IF SurdGtOne(x) THEN Exact(Frac(1, 1)) ELSE x

\* (p * (1 - p)) / n
Radicand(p, n) == Reduce(Frac(p.num * (p.den - p.num), p.den * p.den * n))

\* z * z for a z given in thousandths
ZSquared(z) == Reduce(Frac(z * z, 1000000))

----------------------------------------------------------------------------
(* MontyHallGame *)

Doors == 0..2

\* reset(): the car is behind door c
Reset(c) ==
  [carDoor |-> c, playerChoice |-> NullDoor, hostRevealedDoor |-> NullDoor,
   finalChoice |-> NullDoor, gamePhase |-> "selecting", playerStrategy |-> "null",
   won |-> "null"]

\* (faulty variant of AvailableDoors: the test `i !== this.playerChoice` is dropped)
AvailableDoorsAnyGoat(g) ==
  SelectSeq(<<0, 1, 2>>, LAMBDA i : i # g.carDoor)

\* the availableDoors array of getHostRevealedDoor, in the loop's order
AvailableDoors(g) ==
  SelectSeq(<<0, 1, 2>>, LAMBDA i : i # g.carDoor /\ i # g.playerChoice)

\* getHostRevealedDoor(): rnd is Math.floor(Math.random() * availableDoors.length)
GetHostRevealedDoor(g, rnd) == AvailableDoors(g)[rnd + 1]

\* (faulty variant of HostRandoms: the host always takes the first door left)
HostRandomsFixedTieBreak(g) == {0}

\* the values Math.floor(Math.random() * availableDoors.length) can take
HostRandoms(g) == 0..(Len(AvailableDoors(g)) - 1)

\* (faulty variant of SelectDoorAccepts: the test `doorIndex > 2` is dropped)
SelectDoorAcceptsNoUpperBound(g, doorIndex) ==
  ~(g.gamePhase # "selecting" \/ doorIndex < 0)

\* the guard of selectDoor: it returns false when this fails
SelectDoorAccepts(g, doorIndex) ==
  ~(g.gamePhase # "selecting" \/ doorIndex < 0 \/ doorIndex > 2)

\* selectDoor(doorIndex): the game afterwards, for the host's random draw rnd
SelectDoor(g, doorIndex, rnd) ==
  IF ~SelectDoorAccepts(g, doorIndex) THEN g
  ELSE LET g1 == [g EXCEPT !.playerChoice = doorIndex, !.gamePhase = "revealed"]
       IN  [g1 EXCEPT !.hostRevealedDoor = GetHostRevealedDoor(g1, rnd)]

\* the draws selectDoor can make: the host's choice among the doors left
SelectDoorRandoms(g, doorIndex) ==
  IF ~SelectDoorAccepts(g, doorIndex) THEN {0}
  ELSE HostRandoms([g EXCEPT !.playerChoice = doorIndex])

\* (faulty variant of GetRemainingDoor: the test `i !== this.hostRevealedDoor` is dropped)
GetRemainingDoorAnyOther(g) ==
  IF 0 # g.playerChoice THEN 0 ELSE 1

\* (faulty variant of GetRemainingDoor: the test `i !== this.playerChoice` is dropped)
GetRemainingDoorNotRevealed(g) ==
  IF 0 # g.hostRevealedDoor THEN 0 ELSE 1

\* getRemainingDoor(): the first door that is neither chosen nor revealed
GetRemainingDoor(g) ==
  IF 0 # g.playerChoice /\ 0 # g.hostRevealedDoor THEN 0
  ELSE IF 1 # g.playerChoice /\ 1 # g.hostRevealedDoor THEN 1
  ELSE IF 2 # g.playerChoice /\ 2 # g.hostRevealedDoor THEN 2
  ELSE NullDoor

MakeChoiceAccepts(g, strategy) ==
  ~(g.gamePhase # "revealed" \/ strategy \notin {"stay", "switch"})

\* (faulty variant of MakeChoice: won is decided on playerChoice instead of finalChoice)
MakeChoiceWonOnFirstChoice(g, strategy) ==
  IF ~MakeChoiceAccepts(g, strategy) THEN g
  ELSE LET final == IF strategy = "stay" THEN g.playerChoice ELSE GetRemainingDoor(g)
       IN  [g EXCEPT !.playerStrategy = strategy,
                     !.finalChoice = final,
                     !.won = JsBool(g.playerChoice = g.carDoor),
                     !.gamePhase = "finished"]

\* makeChoice(strategy): the game afterwards
MakeChoice(g, strategy) ==
  IF ~MakeChoiceAccepts(g, strategy) THEN g
  ELSE LET final == IF strategy = "stay" THEN g.playerChoice ELSE GetRemainingDoor(g)
       IN  [g EXCEPT !.playerStrategy = strategy,
                     !.finalChoice = final,
                     !.won = JsBool(final = g.carDoor),
                     !.gamePhase = "finished"]

----------------------------------------------------------------------------
(* BatchSimulator.runGameChunk *)

Strategies == {"stay", "switch"}

\* one pass of runGameChunk's loop body: new MontyHallGame() with the car behind
\* car, selectDoor(0) with the host's draw rnd, makeChoice(strategy)
PlayGame(strategy, car, rnd) == MakeChoice(SelectDoor(Reset(car), 0, rnd), strategy)

\* the record runGameChunk pushes for its i-th game
GameResult(g, i, strategy) ==
  [gameNumber |-> i, strategy |-> strategy, playerChoice |-> g.playerChoice,
   hostRevealedDoor |-> g.hostRevealedDoor, finalChoice |-> g.finalChoice,
   carDoor |-> g.carDoor, won |-> g.won]

\* the games one pass of the loop body can produce
PlayedGames(strategy) ==
  UNION { { PlayGame(strategy, car, rnd) : rnd \in SelectDoorRandoms(Reset(car), 0) } :
          car \in Doors }

\* runGameChunk(strategy, count): the arrays it can return
RunGameChunk(strategy, count) ==
  { [k \in 1..count |-> GameResult(f[k], k - 1, strategy)] :
      f \in [1..count -> PlayedGames(strategy)] }

----------------------------------------------------------------------------
(* BatchSimulator: values *)

Runs == 1..MaxRuns

\* getSpeedDelay(speed): delays[speed] || 0
GetSpeedDelay(speed) ==
  CASE speed = "slow" -> 100
    [] speed = "normal" -> 50
    [] OTHER -> 0

\* the literal { played: 0, won: 0, games: [] } of runSimulation's results.data:
\* it has neither a winRateHistory nor a winRate
InitialData ==
  [played |-> 0, won |-> 0, games |-> <<>>,
   hasHistory |-> FALSE, winRateHistory |-> <<>>,
   hasWinRate |-> FALSE, winRate |-> Frac(0, 0)]

\* the results object runStrategyBatch starts from
NewBatch ==
  [played |-> 0, won |-> 0, games |-> <<>>,
   hasHistory |-> TRUE, winRateHistory |-> <<>>,
   hasWinRate |-> FALSE, winRate |-> Frac(0, 0)]

\* the results object runSimulation starts from
NewResults(totalGames, strategies) ==
  [totalGames |-> totalGames, strategies |-> strategies, endTimeSet |-> FALSE,
   data |-> [stay |-> InitialData, switch |-> InitialData],
   convergence |-> <<>>, statistics |-> <<>>]

\* (faulty variant of CountWon: the filter is dropped, every game of the chunk counts)
CountWonUnfiltered(chunkResults) == Len(chunkResults)

\* chunkResults.filter(game => game.won).length
CountWon(chunkResults) ==
  Cardinality({k \in DOMAIN chunkResults : chunkResults[k].won = "true"})

\* (faulty variant of MergeChunk: a point's gameNumber is the size of its chunk)
MergeChunkLocalNumber(b, chunkResults) ==
  LET played == b.played + Len(chunkResults)
      won == b.won + CountWon(chunkResults)
  IN  [b EXCEPT !.played = played,
                !.won = won,
                !.games = b.games \o chunkResults,
                !.winRateHistory = Append(b.winRateHistory,
                    [gameNumber |-> Len(chunkResults), winRate |-> Frac(won, played),
                     wins |-> won])]

\* runStrategyBatch, "Merge chunk results" and "Calculate running win rate"
MergeChunk(b, chunkResults) ==
  LET played == b.played + Len(chunkResults)
      won == b.won + CountWon(chunkResults)
  IN  [b EXCEPT !.played = played,
                !.won = won,
                !.games = b.games \o chunkResults,
                !.winRateHistory = Append(b.winRateHistory,
                    [gameNumber |-> played, winRate |-> Frac(won, played), wins |-> won])]

\* runStrategyBatch's last statement: results.winRate = results.won / results.played
FinishBatch(b) == [b EXCEPT !.hasWinRate = TRUE, !.winRate = Frac(b.won, b.played)]

\* (faulty variant of CurrentChunkSize: the last chunk is not cut to the games left)
CurrentChunkSizeUncut(chunkSize, gameCount, i) == chunkSize

\* Math.min(chunkSize, gameCount - i)
CurrentChunkSize(chunkSize, gameCount, i) == Min(chunkSize, gameCount - i)

\* Math.floor(totalGames / strategies.length); for an empty list the quotient
\* is not finite and is never read (the loop over the strategies has no pass):
\* 0 stands for it
GamesPerStrategy(totalGames, strategies) ==
  IF Len(strategies) = 0 THEN 0 ELSE totalGames \div Len(strategies)

\* results.data[strategy] = strategyResults: a strategy that is neither 'stay'
\* nor 'switch' becomes a new property of results.data
SetData(data, strategy, strategyResults) ==
  [s \in DOMAIN data \cup {strategy} |-> IF s = strategy THEN strategyResults ELSE data[s]]

\* the theoretical value updateConvergenceData stores
ConvergenceTheoretical(strategy) ==
  IF strategy = "switch" THEN Frac(667, 1000) ELSE Frac(333, 1000)

RECURSIVE PushConvergence(_, _, _, _)
\* updateConvergenceData: the forEach over winRateHistory, from its k-th point
PushConvergence(convergence, strategy, history, k) ==
  IF k > Len(history) THEN convergence
  ELSE LET point == history[k]
           existing == \E j \in DOMAIN convergence :
                         /\ convergence[j].gameNumber = point.gameNumber
                         /\ convergence[j].strategy = strategy
           next == IF existing THEN convergence
                   ELSE Append(convergence,
                          [gameNumber |-> point.gameNumber, strategy |-> strategy,
                           winRate |-> point.winRate, wins |-> point.wins,
                           theoretical |-> ConvergenceTheoretical(strategy)])
       IN  PushConvergence(next, strategy, history, k + 1)

UpdateConvergenceData(results, strategy, strategyResults) ==
  [results EXCEPT !.convergence =
     PushConvergence(results.convergence, strategy, strategyResults.winRateHistory, 1)]

\* calculateStatistics, "Calculate 95% confidence interval": p = data.winRate,
\* n = data.played, marginOfError = 1.96 * Math.sqrt((p * (1 - p)) / n)
BatchConfidence(p, n) ==
  LET zsq == ZSquared(1960)
      rad == Radicand(p, n)
  IN  [lower |-> Surd(p, -1, zsq, rad),
       upper |-> Surd(p, 1, zsq, rad),
       marginOfError |-> Surd(Frac(0, 1), 1, zsq, rad),
       standardError |-> Surd(Frac(0, 1), 1, Frac(1, 1), rad)]

\* calculateStatistics: per strategy of results.strategies, the summary (the
\* counts and the stored win rate) and the confidence interval
CalculateStatistics(results) ==
  [summary |->
     [s \in {results.strategies[k] : k \in DOMAIN results.strategies} |->
        [winRate |-> results.data[s].winRate,
         wins |-> results.data[s].won,
         losses |-> results.data[s].played - results.data[s].won,
         total |-> results.data[s].played]],
   confidence |->
     [s \in {results.strategies[k] : k \in DOMAIN results.strategies} |->
        BatchConfidence(results.data[s].winRate, results.data[s].played)]]

\* (faulty variant of ProgressCompleted: the count restarts with every strategy)
ProgressCompletedPerStrategy(completedGames, increment, totalForStrategy) == totalForStrategy

\* the progress closure of runSimulation: completedGames += progress.increment
ProgressCompleted(completedGames, increment, totalForStrategy) == completedGames + increment

\* the object the progress closure of runSimulation hands to onProgress
TotalProgress(completedGames, totalGames, strategy) ==
  [completed |-> completedGames, total |-> totalGames,
   percentage |-> Frac(completedGames * 100, totalGames), strategy |-> strategy]

----------------------------------------------------------------------------
(* BatchSimulator: state *)

\* a runSimulation() call that has not been made yet
UnstartedRun ==
  [pc |-> "unstarted", totalGames |-> 0, strategies |-> <<>>, chunkSize |-> 0,
   delayMs |-> 0, gamesPerStrategy |-> 0, completedGames |-> 0, sIdx |-> 0, i |-> 0,
   batch |-> NewBatch, results |-> NewResults(0, <<>>), error |-> FALSE]

\* what has been observed of a call: the chunks it began, the games it generated,
\* whether stopSimulation() was called while it was in progress, whether its
\* cancellation check fired, the objects its onProgress received, and how often
\* its onComplete was invoked
NoHistory ==
  [chunks |-> 0, generated |-> 0, stopCalled |-> FALSE, cancelSeen |-> FALSE,
   progress |-> <<>>, completeCalls |-> 0]

\* a call is in progress from the moment it passes the isRunning guard until it
\* returns or throws
InProgress(r) == run[r].pc \in {"loop", "sleeping", "awaiting"}

Ended(r) == run[r].pc \in {"returned", "failed"}

RECURSIVE GamesAsked(_)
\* the totalGames of the calls 1..r that passed the guard, summed
GamesAsked(r) == IF r = 0 THEN 0 ELSE run[r].totalGames + GamesAsked(r - 1)

\* the arguments runSimulation() is called with
TotalGamesArgs == 1..(MaxGames - GamesAsked(MaxRuns))
StrategiesArgs == {<<"stay">>, <<"switch">>, <<"stay", "switch">>, <<"switch", "stay">>}
SpeedArgs == {"slow", "fast"}
ChunkSizeArgs == 1..MaxChunk

\* what a caller's onProgress may do: return, call stopSimulation(), or throw
ProgressBehaviours == {"ok", "stop", "throw"}
\* what a caller's onComplete may do: return or throw
CompleteBehaviours == {"ok", "throw"}

\* a MontyHallGame object that has not been constructed
NoGame == [Reset(0) EXCEPT !.carDoor = NullDoor, !.gamePhase = "none"]

\* no selectDoor or makeChoice call has been made
NoCall == [call |-> "none", door |-> NullDoor, strategy |-> "null", value |-> "null"]

BatchInit ==
  /\ isRunning = FALSE
  /\ currentSimulation = 0
  /\ run = [r \in Runs |-> UnstartedRun]
  /\ active = 0
  /\ microtasks = <<>>
  /\ timers = <<>>
  /\ hist = [r \in Runs |-> NoHistory]

----------------------------------------------------------------------------
(* BatchSimulator: exportResults *)

\* the first line exportToCsv writes
CsvHeader == "Game,Strategy,PlayerChoice,HostRevealed,FinalChoice,CarDoor,Won,WinRate"

\* the format tokens exportResults() is called with
FormatArgs == {"json", "JSON", "csv", "Csv", "xml"}

\* (faulty variant of ToLowerCase: the token is compared as it was given)
ToLowerCaseAsGiven(format) == format

\* format.toLowerCase()
ToLowerCase(format) ==
  CASE format = "JSON" -> "json"
    [] format = "Csv" -> "csv"
    [] OTHER -> format

\* Number.prototype.toFixed(4) of a quotient in 0..1, as the count of
\* ten-thousandths it prints (0.3333 is 3333): the nearest one, the larger of
\* two equally near
ToFixed4(x) == (2 * 10000 * x.num + x.den) \div (2 * x.den)

\* data.winRateHistory.find(h => h.gameNumber >= index + 1)?.winRate || 0
\* (no such point, a NaN and a 0 all give 0)
FindWinRate(winRateHistory, index) ==
  LET found == {k \in DOMAIN winRateHistory : winRateHistory[k].gameNumber >= index + 1}
      first == CHOOSE k \in found : \A j \in found : k <= j
  IN  IF found = {} THEN Frac(0, 1)
      ELSE IF winRateHistory[first].winRate.den = 0 THEN Frac(0, 1)
      ELSE winRateHistory[first].winRate

\* the line exportToCsv writes for data.games[index] (index counts from 0)
CsvRow(strategy, data, index) ==
  LET g == data.games[index + 1]
  IN  [Game |-> g.gameNumber + 1, Strategy |-> strategy,
       PlayerChoice |-> g.playerChoice, HostRevealed |-> g.hostRevealedDoor,
       FinalChoice |-> g.finalChoice, CarDoor |-> g.carDoor, Won |-> g.won,
       WinRate |-> ToFixed4(FindWinRate(data.winRateHistory, index))]

\* (faulty variant of StrategyRows: one line per winRateHistory point)
StrategyRowsPerPoint(strategy, data) ==
  [k \in 1..Len(data.winRateHistory) |->
     CsvRow(strategy, data, data.winRateHistory[k].gameNumber - 1)]

\* data.games.forEach(...): the lines of one strategy
StrategyRows(strategy, data) ==
  [k \in 1..Len(data.games) |-> CsvRow(strategy, data, k - 1)]

RECURSIVE CsvRows(_, _)
\* the loop of exportToCsv over results.strategies, from its k-th strategy
CsvRows(results, k) ==
  IF k > Len(results.strategies) THEN <<>>
  ELSE StrategyRows(results.strategies[k], results.data[results.strategies[k]])
         \o CsvRows(results, k + 1)

\* exportToCsv(results): the header line and the data lines, each ended by "\n"
ExportToCsv(results) == [header |-> CsvHeader, rows |-> CsvRows(results, 1)]

\* a number as JSON.stringify writes it: NaN becomes null
JsonNumber(x) == [null |-> x.den = 0, num |-> IF x.den = 0 THEN 0 ELSE x.num, den |-> x.den]

JsonSurd(x) == [null |-> SurdNaN(x), value |-> IF SurdNaN(x) THEN Exact(Frac(0, 1)) ELSE x]

\* a strategy batch as JSON.stringify writes it: a property that was never
\* assigned (winRateHistory, winRate of the initial literal) is left out
JsonBatch(b) ==
  [played |-> b.played, won |-> b.won, games |-> b.games,
   winRateHistory |-> IF b.hasHistory
                      THEN <<[k \in DOMAIN b.winRateHistory |->
                               [b.winRateHistory[k] EXCEPT !.winRate = JsonNumber(@)]]>>
                      ELSE <<>>,
   winRate |-> IF b.hasWinRate THEN <<JsonNumber(b.winRate)>> ELSE <<>>]

\* JSON.stringify(results, null, 2)
JsonStringify(results) ==
  [totalGames |-> results.totalGames, strategies |-> results.strategies,
   data |-> [s \in DOMAIN results.data |-> JsonBatch(results.data[s])],
   convergence |-> [k \in DOMAIN results.convergence |->
                      [results.convergence[k] EXCEPT !.winRate = JsonNumber(@)]],
   statistics |->
     IF results.statistics = <<>> THEN <<>>
     ELSE <<[summary |->
               [s \in DOMAIN results.statistics[1].summary |->
                  [results.statistics[1].summary[s] EXCEPT !.winRate = JsonNumber(@)]],
             confidence |->
               [s \in DOMAIN results.statistics[1].confidence |->
                  LET c == results.statistics[1].confidence[s]
                  IN  [lower |-> JsonSurd(c.lower), upper |-> JsonSurd(c.upper),
                       marginOfError |-> JsonSurd(c.marginOfError),
                       standardError |-> JsonSurd(c.standardError)]]]>>]

----------------------------------------------------------------------------
(* StatisticalAnalyzer *)

\* (faulty variant of TheoreticalProbabilities: an analysis overwrites
\* this.theoreticalProbabilities, so later calls read another value)
TheoreticalProbabilitiesOverwritten(strategy) ==
  IF analyzed # <<>> THEN Frac(1, 2)
  ELSE IF strategy = "switch" THEN Frac(2, 3) ELSE Frac(1, 3)

\* this.theoreticalProbabilities[strategy], for 'stay' and 'switch'
TheoreticalProbabilities(strategy) ==
  IF strategy = "switch" THEN Frac(2, 3) ELSE Frac(1, 3)

\* getZScore(confidence): zScores[confidence] || 1.96, the confidence level and
\* the score both in thousandths
GetZScore(confidence) ==
  CASE confidence = 900 -> 1645
    [] confidence = 950 -> 1960
    [] confidence = 990 -> 2576
    [] confidence = 999 -> 3291
    [] OTHER -> 1960

\* x - y
FracSub(x, y) == Reduce(Frac(x.num * y.den - y.num * x.den, x.den * y.den))

\* Math.abs(x)
FracAbs(x) == Frac(IF x.num < 0 THEN -x.num ELSE x.num, x.den)

\* d * d <= x.zsq * x.rad and d * d >= x.zsq * x.rad, for a quotient d
SquareLe(d, x) == d.num * d.num * x.zsq.den * x.rad.den <= x.zsq.num * x.rad.num * d.den * d.den
SquareGe(d, x) == d.num * d.num * x.zsq.den * x.rad.den >= x.zsq.num * x.rad.num * d.den * d.den

\* f >= x for a quotient f and a finite number x; false when either is NaN
FracGeSurd(f, x) ==
  /\ ~IsNaN(f) /\ ~SurdNaN(x)
  /\ LET d == FracSub(f, x.base)
     IN  CASE x.sign = 0 -> d.num >= 0
           [] x.sign = -1 -> d.num >= 0 \/ SquareLe(d, x)
           [] x.sign = 1 -> d.num >= 0 /\ SquareGe(d, x)

\* f <= x for a quotient f and a finite number x; false when either is NaN
FracLeSurd(f, x) ==
  /\ ~IsNaN(f) /\ ~SurdNaN(x)
  /\ LET d == FracSub(f, x.base)
     IN  CASE x.sign = 0 -> d.num <= 0
           [] x.sign = 1 -> d.num <= 0 \/ SquareLe(d, x)
           [] x.sign = -1 -> d.num <= 0 /\ SquareGe(d, x)

\* calculateConfidenceInterval(p, n, confidence)
CalculateConfidenceInterval(p, n, confidence) ==
  LET zsq == ZSquared(GetZScore(confidence))
      rad == Radicand(p, n)
  IN  [lower |-> MathMax0(Surd(p, -1, zsq, rad)),
       upper |-> MathMin1(Surd(p, 1, zsq, rad)),
       marginOfError |-> Surd(Frac(0, 1), 1, zsq, rad),
       standardError |-> Surd(Frac(0, 1), 1, Frac(1, 1), rad)]

\* performZTest(observedP, n, expectedP): zScore is diff / Math.sqrt(rad);
\* pValue, significance and rejectNull follow from zScore through normalCDF,
\* whose p-value falls below 0.05 at |zScore| = 1.95996 (no sample of up to
\* seven games has a |zScore| between 1.9 and 2: 1.96 stands for the threshold)
PerformZTest(observedP, n, expectedP) ==
  LET diff == FracSub(observedP, expectedP)
      rad == Radicand(expectedP, n)
      nan == IsNaN(diff) \/ IsNaN(rad)
  IN  [zScore |-> [nan |-> nan, diff |-> diff, rad |-> rad],
       rejectNull |-> /\ ~nan
                      /\ diff.num * diff.num * rad.den * 625 > 2401 * diff.den * diff.den * rad.num]

\* isWithinExpectedRange(observed, theoretical, sampleSize)
IsWithinExpectedRange(observed, theoretical, sampleSize) ==
  LET ci95 == CalculateConfidenceInterval(theoretical, sampleSize, 950)
  IN  FracGeSurd(observed, ci95.lower) /\ FracLeSurd(observed, ci95.upper)

\* the strategies a results object lists
StrategySet(results) == {results.strategies[k] : k \in DOMAIN results.strategies}

\* calculateDescriptiveStats(results): the counts, the proportions, the
\* absolute deviation (the relative and percent deviations and the accuracy
\* are multiples of it) and the comparison of the two strategies
CalculateDescriptiveStats(results) ==
  [strategies |->
     [s \in StrategySet(results) |->
        LET data == results.data[s]
            theoretical == TheoreticalProbabilities(s)
        IN  [totalGames |-> data.played, wins |-> data.won,
             losses |-> data.played - data.won,
             observedWinRate |-> data.winRate,
             theoreticalWinRate |-> theoretical,
             absoluteDeviation |-> FracAbs(FracSub(data.winRate, theoretical)),
             withinExpectedRange |->
               IsWithinExpectedRange(data.winRate, theoretical, data.played)]],
   comparison |->
     IF {"stay", "switch"} \subseteq StrategySet(results)
     THEN <<[switchAdvantage |->
               FracSub(results.data["switch"].winRate, results.data["stay"].winRate),
             correctRelationship |->
               /\ FracLe(results.data["stay"].winRate, results.data["switch"].winRate)
               /\ ~FracEq(results.data["stay"].winRate, results.data["switch"].winRate)]>>
     ELSE <<>>]

\* the entry calculateInferentialStats builds for one confidence interval
IntervalEntry(ci, theoretical) ==
  [lower |-> ci.lower, upper |-> ci.upper, marginOfError |-> ci.marginOfError,
   containsTheoretical |-> FracGeSurd(theoretical, ci.lower) /\ FracLeSurd(theoretical, ci.upper)]

\* calculateInferentialStats(results): the two confidence intervals, the
\* z-test and the sample size (its power analysis depends on the strategy only)
CalculateInferentialStats(results) ==
  [s \in StrategySet(results) |->
     LET data == results.data[s]
         theoretical == TheoreticalProbabilities(s)
     IN  [ci95 |-> IntervalEntry(
                     CalculateConfidenceInterval(data.winRate, data.played, 950), theoretical),
          ci99 |-> IntervalEntry(
                     CalculateConfidenceInterval(data.winRate, data.played, 990), theoretical),
          hypothesisTest |-> PerformZTest(data.winRate, data.played, theoretical),
          sampleSize |-> data.played]]

\* what a call of the analyzer yields: a value, or the TypeError of calling a
\* method the class does not define
Returned(value) == [status |-> "ok", missing |-> "", value |-> <<value>>]
TypeError(method) == [status |-> "TypeError", missing |-> method, value |-> <<>>]

\* analyzeConvergence(results): a strategy without history is skipped; for the
\* first one with history measureConvergence, assessStability and
\* findConvergenceMilestones are computed and this.forecastConvergence, which
\* StatisticalAnalyzer does not define, is called
AnalyzeConvergence(results) ==
  IF \E s \in StrategySet(results) :
       results.data[s].hasHistory /\ Len(results.data[s].winRateHistory) > 0
  THEN TypeError("forecastConvergence")
  ELSE Returned([s \in {} |-> <<>>])

\* generateEducationalInsights(results): analyzeLawOfLargeNumbers is computed
\* and this.generateProbabilityExplanation, which StatisticalAnalyzer does not
\* define, is called
GenerateEducationalInsights(results) == TypeError("generateProbabilityExplanation")

\* prepareVisualizationData(results): the points of the convergence chart and
\* the 95% interval per strategy
PrepareVisualizationData(results) ==
  [confidenceIntervals |->
     [s \in StrategySet(results) |->
        LET ci == CalculateConfidenceInterval(results.data[s].winRate,
                                              results.data[s].played, 950)
        IN  [observed |-> results.data[s].winRate,
             theoretical |-> TheoreticalProbabilities(s),
             lower |-> ci.lower, upper |-> ci.upper,
             marginOfError |-> ci.marginOfError]]]

\* analyzeResults(results): the five analyses in the order of the object
\* literal; the first that throws ends the call
AnalyzeResults(results) ==
  LET convergence == AnalyzeConvergence(results)
      educational == GenerateEducationalInsights(results)
  IN  IF convergence.status # "ok" THEN convergence
      ELSE IF educational.status # "ok" THEN educational
      ELSE Returned([descriptive |-> CalculateDescriptiveStats(results),
                     inferential |-> CalculateInferentialStats(results),
                     convergence |-> convergence.value[1],
                     educational |-> educational.value[1],
                     visualization |-> PrepareVisualizationData(results)])

\* the public analyses of the StatisticalAnalyzer
Analyses ==
  {"analyzeResults", "calculateDescriptiveStats", "calculateInferentialStats",
   "analyzeConvergence", "generateEducationalInsights"}

\* what a call of the named analysis on a results object yields
Analyze(method, results) ==
  CASE method = "analyzeResults" -> AnalyzeResults(results)
    [] method = "calculateDescriptiveStats" -> Returned(CalculateDescriptiveStats(results))
    [] method = "calculateInferentialStats" -> Returned(CalculateInferentialStats(results))
    [] method = "analyzeConvergence" -> AnalyzeConvergence(results)
    [] method = "generateEducationalInsights" -> GenerateEducationalInsights(results)

\* null, where a gameNumber (which is at least 1) is expected
NullNumber == 0

\* a > b as numbers; false when either is NaN
FracGt(a, b) == ~IsNaN(a) /\ ~IsNaN(b) /\ a.num * b.den > b.num * a.den

\* the milestones object findConvergenceMilestones starts from
InitialMilestones ==
  [firstWithin10Percent |-> NullNumber, firstWithin5Percent |-> NullNumber,
   firstWithin1Percent |-> NullNumber,
   longestStableStreak |-> [start |-> NullNumber, end |-> NullNumber, length |-> 0],
   worstDeviation |-> [gameNumber |-> NullNumber, deviation |-> Frac(0, 1),
                       hasWinRate |-> FALSE, winRate |-> Frac(0, 1)]]

\* Math.abs(point.winRate - theoretical) * 100
PercentDeviation(point, theoretical) ==
  LET deviation == FracAbs(FracSub(point.winRate, theoretical))
  IN  Frac(deviation.num * 100, deviation.den)

\* (faulty variant of StreakLonger: a streak as long as the longest replaces it)
StreakLongerOrEqual(current, longest) == current >= longest

\* currentStableStreak > milestones.longestStableStreak.length
StreakLonger(current, longest) == current > longest

\* one pass of findConvergenceMilestones' loop, for the index i (from 0); the
\* indices of history it reads are noted, and reading gameNumber from an index
\* outside the history is a TypeError
MilestonesPass(history, theoretical, i, s) ==
  LET point == history[i + 1]
      deviation == FracAbs(FracSub(point.winRate, theoretical))
      percentDeviation == PercentDeviation(point, theoretical)
      m == s.milestones
      m1 == [m EXCEPT
               !.firstWithin10Percent =
                  IF @ = NullNumber /\ FracLe(percentDeviation, Frac(10, 1))
                  THEN point.gameNumber ELSE @,
               !.firstWithin5Percent =
                  IF @ = NullNumber /\ FracLe(percentDeviation, Frac(5, 1))
                  THEN point.gameNumber ELSE @,
               !.firstWithin1Percent =
                  IF @ = NullNumber /\ FracLe(percentDeviation, Frac(1, 1))
                  THEN point.gameNumber ELSE @]
      m2 == IF FracGt(deviation, m1.worstDeviation.deviation)
            THEN [m1 EXCEPT !.worstDeviation =
                    [gameNumber |-> point.gameNumber, deviation |-> deviation,
                     hasWinRate |-> TRUE, winRate |-> point.winRate]]
            ELSE m1
      read == [s EXCEPT !.reads = @ \cup {i}]
  IN
  IF FracLe(percentDeviation, Frac(5, 1))
  THEN [read EXCEPT !.milestones = m2,
                    !.stableStreakStart = IF s.currentStableStreak = 0
                                          THEN point.gameNumber ELSE @,
                    !.currentStableStreak = @ + 1]
  ELSE IF StreakLonger(s.currentStableStreak, m2.longestStableStreak.length)
  THEN IF i - 1 \in 0..(Len(history) - 1)
       THEN [read EXCEPT !.reads = @ \cup {i - 1},
                         !.milestones =
                            [m2 EXCEPT !.longestStableStreak =
                               [start |-> s.stableStreakStart,
                                end |-> history[i].gameNumber,
                                length |-> s.currentStableStreak]],
                         !.currentStableStreak = 0]
       ELSE [read EXCEPT !.reads = @ \cup {i - 1}, !.milestones = m2, !.error = TRUE]
  ELSE [read EXCEPT !.milestones = m2, !.currentStableStreak = 0]

RECURSIVE MilestonesLoop(_, _, _, _)
\* the loop of findConvergenceMilestones from the index i on
MilestonesLoop(history, theoretical, i, s) ==
  IF i >= Len(history) \/ s.error THEN s
  ELSE MilestonesLoop(history, theoretical, i + 1, MilestonesPass(history, theoretical, i, s))

\* findConvergenceMilestones(history, theoretical): the milestones it returns,
\* or the TypeError it throws, and the indices of history it read
FindConvergenceMilestones(history, theoretical) ==
  LET start == [milestones |-> InitialMilestones, currentStableStreak |-> 0,
                stableStreakStart |-> NullNumber, reads |-> {}, error |-> FALSE]
      s == MilestonesLoop(history, theoretical, 0, start)
      last == Len(history) - 1
  IN
  IF s.error THEN [status |-> "TypeError", value |-> <<>>, reads |-> s.reads]
  ELSE IF StreakLonger(s.currentStableStreak, s.milestones.longestStableStreak.length)
  THEN IF last \in 0..(Len(history) - 1)
       THEN [status |-> "ok",
             value |-> <<[s.milestones EXCEPT !.longestStableStreak =
                            [start |-> s.stableStreakStart,
                             end |-> history[last + 1].gameNumber,
                             length |-> s.currentStableStreak]]>>,
             reads |-> s.reads \cup {last}]
       ELSE [status |-> "TypeError", value |-> <<>>, reads |-> s.reads \cup {last}]
  ELSE [status |-> "ok", value |-> <<s.milestones>>, reads |-> s.reads]

\* findConvergenceMilestones has not been called
NoMilestones == [strategy |-> "null", history |-> <<>>, result |-> <<>>]

\* no MontyHallUI is attached to the simulator
NoPanel == [page |-> "none"]

\* no game panel is shown
NoApp == [isAnimating |-> FALSE, handlers |-> <<>>, clicks |-> 0]

----------------------------------------------------------------------------
(* GameStats *)

\* n / d as stored in winRate (equal numbers are equal values)
Quotient(n, d) == IF n = 0 /\ d # 0 THEN Frac(0, 1) ELSE Reduce(Frac(n, d))

\* getDefaultStats(), without its two timestamps
GetDefaultStats ==
  [totalGames |-> 0,
   stay |-> [played |-> 0, won |-> 0, winRate |-> Frac(0, 1)],
   switch |-> [played |-> 0, won |-> 0, winRate |-> Frac(0, 1)]]

\* (faulty variant of RecordGame: totalGames is counted before the strategy is checked)
RecordGameCountsFirst(st, strategy, won) ==
  LET counted == [st EXCEPT !.totalGames = @ + 1]
  IN  IF strategy \notin {"stay", "switch"} THEN counted
      ELSE LET played == st[strategy].played + 1
               wins == IF won = "true" THEN st[strategy].won + 1 ELSE st[strategy].won
           IN  [counted EXCEPT ![strategy] =
                  [played |-> played, won |-> wins, winRate |-> Quotient(wins, played)]]

\* recordGame(strategy, won): the stats afterwards; won is a JavaScript value
\* tested for truth
RecordGame(st, strategy, won) ==
  IF strategy \notin {"stay", "switch"} THEN st
  ELSE LET played == st[strategy].played + 1
           wins == IF won = "true" THEN st[strategy].won + 1 ELSE st[strategy].won
       IN  [st EXCEPT ![strategy] =
                        [played |-> played, won |-> wins, winRate |-> Quotient(wins, played)],
                      !.totalGames = @ + 1]

\* no GameStats call has been made
NoStatsCall == [call |-> "none", strategy |-> "null", won |-> "null"]

\* no exportResults() call has been made
NotExported ==
  [status |-> "none", format |-> "", arg |-> 0, of |-> 0, csv |-> <<>>, json |-> <<>>]

ToolInit ==
  /\ exported = NotExported
  /\ analyzed = <<>>
  /\ ui = NoPanel
  /\ app = NoApp
  /\ stats = GetDefaultStats
  /\ statsCall = NoStatsCall
  /\ milestones = NoMilestones

----------------------------------------------------------------------------
(* BatchSimulator: operations *)

\* the elements of the page that the completion handler writes to; each is
\* there or missing (document.getElementById yields null)
Pages == [resultsSummary : BOOLEAN, convergenceChart : BOOLEAN, insightsContent : BOOLEAN]

\* displayResultsSummary(results): a card per strategy, then
\* statisticalAnalyzer.analyzeConvergence(results)
DisplayResultsSummary(results, page) ==
  IF ~page.resultsSummary THEN "ok"
  ELSE IF AnalyzeConvergence(results).status # "ok" THEN "throw"
  ELSE "ok"

\* displayCharts(results): createConvergenceChart reads data.convergenceData,
\* which a results object does not have (its points are in results.convergence)
DisplayCharts(results, page) ==
  IF ~page.convergenceChart THEN "ok" ELSE "throw"

\* displayInsights(results): generateEducationalInsights(results), then
\* insights.map(...) on what it returns
DisplayInsights(results, page) ==
  IF ~page.insightsContent THEN "ok"
  ELSE IF GenerateEducationalInsights(results).status # "ok" THEN "throw"
  ELSE "throw"

\* handleSimulationComplete(results): whether it returns or throws, after it
\* has stored the results and set the status to 'completed'
HandleSimulationComplete(results, page) ==
  IF DisplayResultsSummary(results, page) = "throw" THEN "throw"
  ELSE IF DisplayCharts(results, page) = "throw" THEN "throw"
  ELSE DisplayInsights(results, page)

\* what the caller's onProgress does when it is called; the callers of
\* runSimulation are "any", whose callbacks may do anything a callback can,
\* "panel", which is startBatchSimulation, and "returns", whose callbacks return
OnProgress(caller) ==
  IF caller = "any" THEN ProgressBehaviours ELSE {"ok"}

\* what the caller's onComplete does when it is called with the results:
\* startBatchSimulation passes handleSimulationComplete
OnComplete(caller, results) ==
  IF caller = "any" THEN CompleteBehaviours
  ELSE IF caller = "panel" THEN {HandleSimulationComplete(results, ui.page)}
  ELSE {"ok"}

\* stopSimulation() reaches every call in progress
NoteStop(h) == [r \in Runs |-> IF InProgress(r) THEN [h[r] EXCEPT !.stopCalled = TRUE] ELSE h[r]]

\* runSimulation(options), up to the first pass of runStrategyBatch's loop:
\* the isRunning guard, the results object, gamesPerStrategy, and the call of
\* runStrategyBatch for the first strategy
RunSimulationStep(r, totalGames, strategies, speed, chunkSize, caller, waiter) ==
  /\ active = 0
  /\ run[r].pc = "unstarted"
  /\ \A q \in Runs : q < r => run[q].pc # "unstarted"
  /\ LET started == [pc |-> "loop", totalGames |-> totalGames, strategies |-> strategies,
                     chunkSize |-> chunkSize, delayMs |-> GetSpeedDelay(speed),
                     gamesPerStrategy |-> GamesPerStrategy(totalGames, strategies),
                     completedGames |-> 0, sIdx |-> 1, i |-> 0,
                     batch |-> NewBatch, results |-> NewResults(totalGames, strategies),
                     error |-> FALSE]
     IN
     IF isRunning
     THEN /\ run' = [run EXCEPT ![r].pc = "rejected"]
          /\ microtasks' = microtasks \o waiter
          /\ UNCHANGED <<isRunning, active, currentSimulation, hist>>
     ELSE IF strategies # <<>>
     THEN /\ isRunning' = TRUE
          /\ run' = [run EXCEPT ![r] = started]
          /\ active' = r
          /\ UNCHANGED <<currentSimulation, hist, microtasks>>
     ELSE \* the loop over the strategies has no pass and the call reaches no
          \* await: it completes before it returns its promise
          LET timed == [started.results EXCEPT !.endTimeSet = TRUE]
              final == [timed EXCEPT !.statistics = <<CalculateStatistics(timed)>>]
          IN
          \E beh \in OnComplete(caller, final) :
            /\ run' = [run EXCEPT ![r] =
                  [started EXCEPT !.results = final,
                                  !.pc = IF beh = "throw" THEN "failed" ELSE "returned"]]
            /\ currentSimulation' = r
            /\ isRunning' = FALSE
            /\ hist' = [hist EXCEPT ![r].completeCalls = @ + 1]
            /\ microtasks' = microtasks \o waiter
            /\ UNCHANGED active
  /\ UNCHANGED timers

\* runSimulation(options) called by a caller that does not await it
RunSimulation(r, totalGames, strategies, speed, chunkSize) ==
  /\ RunSimulationStep(r, totalGames, strategies, speed, chunkSize, "any", <<>>)
  /\ UNCHANGED <<gameVars, toolVars, pageVars>>

\* a timer fires only when no microtask is pending, and after every timer set
\* earlier with a delay that is not longer
TimerDue(r) ==
  /\ microtasks = <<>>
  /\ \E k \in DOMAIN timers :
       /\ timers[k] = r
       /\ \A j \in 1..(k - 1) : run[timers[j]].delayMs > run[r].delayMs

RemoveTimer(r) == SelectSeq(timers, LAMBDA q : q # r)

\* the cancellation check of runStrategyBatch's loop: break when it holds
CancellationCheck(running) == ~running

\* one pass of runStrategyBatch's loop, entered either straight from the pass
\* before (delayMs == 0) or when sleep(delayMs) resolves: the loop condition,
\* the cancellation check, runGameChunk, the merge, onProgress, and the sleep;
\* when the loop ends, results.winRate and the return
RunStrategyBatchPassStep(r, caller) ==
  /\ \/ run[r].pc = "loop" /\ active = r
     \/ run[r].pc = "sleeping" /\ active = 0 /\ TimerDue(r)
  /\ LET R == run[r]
         strategy == R.strategies[R.sIdx]
         gameCount == R.gamesPerStrategy
     IN
     IF R.i < gameCount /\ ~CancellationCheck(isRunning)
     THEN /\ hist[r].chunks < MaxPasses
          /\ \E chunkResults \in RunGameChunk(strategy, CurrentChunkSize(R.chunkSize, gameCount, R.i)),
             beh \in OnProgress(caller) :
            LET merged == MergeChunk(R.batch, chunkResults)
                completed == ProgressCompleted(R.completedGames, Len(chunkResults), merged.played)
                suspend == beh = "throw" \/ R.delayMs > 0
                h1 == [hist EXCEPT ![r].chunks = @ + 1,
                                   ![r].generated = @ + Len(chunkResults),
                                   ![r].progress = Append(@, TotalProgress(completed, R.totalGames, strategy))]
            IN
            /\ run' = [run EXCEPT ![r].batch = merged,
                                  ![r].completedGames = completed,
                                  ![r].i = R.i + R.chunkSize,
                                  ![r].error = (beh = "throw"),
                                  ![r].pc = IF beh = "throw" THEN "awaiting"
                                            ELSE IF R.delayMs > 0 THEN "sleeping"
                                            ELSE "loop"]
            /\ isRunning' = IF beh = "stop" THEN FALSE ELSE isRunning
            /\ hist' = IF beh = "stop" THEN NoteStop(h1) ELSE h1
            /\ active' = IF suspend THEN 0 ELSE r
            /\ microtasks' = IF beh = "throw" THEN Append(microtasks, r) ELSE microtasks
            /\ timers' = IF beh # "throw" /\ R.delayMs > 0
                         THEN Append(RemoveTimer(r), r) ELSE RemoveTimer(r)
     ELSE /\ run' = [run EXCEPT ![r].batch = FinishBatch(R.batch), ![r].pc = "awaiting"]
          /\ hist' = [hist EXCEPT ![r].cancelSeen = @ \/ (R.i < gameCount)]
          /\ active' = 0
          /\ microtasks' = Append(microtasks, r)
          /\ timers' = RemoveTimer(r)
          /\ UNCHANGED isRunning
  /\ UNCHANGED currentSimulation

\* a pass of a run whose onProgress may return, call stopSimulation() or throw
RunStrategyBatchPass(r) ==
  /\ RunStrategyBatchPassStep(r, "any")
  /\ UNCHANGED <<gameVars, toolVars, pageVars>>

\* (faulty variant of CatchError: the catch block rethrows without clearing isRunning)
CatchErrorKeepsRunning(running) == running

\* the catch block of runSimulation: this.isRunning = false
CatchError(running) == FALSE

\* runSimulation() after `await this.runStrategyBatch(...)`: the rejection is
\* caught and rethrown; otherwise the strategy's results are merged and either
\* the next strategy's batch is started or the run is completed
ResumeRunSimulationStep(r, caller, waiter) ==
  /\ active = 0
  /\ microtasks # <<>> /\ Head(microtasks) = r
  /\ run[r].pc = "awaiting"
  /\ LET R == run[r]
         strategy == R.strategies[R.sIdx]
         merged == UpdateConvergenceData(
                     [R.results EXCEPT !.data = SetData(@, strategy, R.batch)],
                     strategy, R.batch)
     IN
     IF R.error
     THEN /\ isRunning' = CatchError(isRunning)
          /\ run' = [run EXCEPT ![r].pc = "failed"]
          /\ microtasks' = Tail(microtasks) \o waiter
          /\ UNCHANGED <<currentSimulation, active, hist>>
     ELSE IF R.sIdx < Len(R.strategies)
     THEN /\ run' = [run EXCEPT ![r].results = merged, ![r].sIdx = R.sIdx + 1,
                                ![r].i = 0, ![r].batch = NewBatch, ![r].pc = "loop"]
          /\ active' = r
          /\ microtasks' = Tail(microtasks)
          /\ UNCHANGED <<isRunning, currentSimulation, hist>>
     ELSE LET timed == [merged EXCEPT !.endTimeSet = TRUE]
              final == [timed EXCEPT !.statistics = <<CalculateStatistics(timed)>>]
          IN
          \E beh \in OnComplete(caller, final) :
            /\ run' = [run EXCEPT ![r].results = final,
                                  ![r].pc = IF beh = "throw" THEN "failed" ELSE "returned"]
            /\ currentSimulation' = r
            /\ isRunning' = FALSE
            /\ hist' = [hist EXCEPT ![r].completeCalls = @ + 1]
            /\ microtasks' = Tail(microtasks) \o waiter
            /\ UNCHANGED active
  /\ UNCHANGED timers

\* the resumption of a run whose caller does not await it
ResumeRunSimulation(r) ==
  /\ ResumeRunSimulationStep(r, "any", <<>>)
  /\ UNCHANGED <<gameVars, toolVars, pageVars>>

\* stopSimulation(), called while the thread is free
StopSimulationStep ==
  /\ active = 0
  /\ isRunning' = FALSE
  /\ hist' = NoteStop(hist)
  /\ UNCHANGED <<currentSimulation, run, active, microtasks, timers>>

StopSimulation ==
  /\ StopSimulationStep
  /\ UNCHANGED <<gameVars, toolVars, pageVars>>

Init ==
  /\ BatchInit
  /\ ToolInit
  /\ game = NoGame
  /\ ret = NoCall
  /\ chunkOut = <<>>

Next ==
  \/ \E r \in Runs, totalGames \in TotalGamesArgs, strategies \in StrategiesArgs,
        speed \in SpeedArgs, chunkSize \in ChunkSizeArgs :
       RunSimulation(r, totalGames, strategies, speed, chunkSize)
  \/ \E r \in Runs : RunStrategyBatchPass(r)
  \/ \E r \in Runs : ResumeRunSimulation(r)
  \/ StopSimulation

Spec == Init /\ [][Next]_vars

\* the event loop runs a callback that is due: a pass that holds the thread or
\* whose sleep() timer is due is taken, and so is a settled await
SpecLive ==
  /\ Spec
  /\ \A r \in Runs : WF_vars(RunStrategyBatchPass(r)) /\ WF_vars(ResumeRunSimulation(r))

----------------------------------------------------------------------------
(* BatchSimulator: runSimulation() called with any options *)

\* option values inside and outside the documented domain
AnyTotalGamesArgs == {-1, 0, 1, 2}
AnyStrategiesArgs == {<<>>, <<"other">>, <<"stay", "other">>, <<"stay">>, <<"switch", "stay">>}
AnyChunkSizeArgs == {-1, 0, 1, 2}

\* the first runSimulation() call on a new BatchSimulator, whatever its options
NextArgs ==
  \/ \E totalGames \in AnyTotalGamesArgs, strategies \in AnyStrategiesArgs,
        speed \in SpeedArgs, chunkSize \in AnyChunkSizeArgs :
       RunSimulation(1, totalGames, strategies, speed, chunkSize)
  \/ RunStrategyBatchPass(1)
  \/ ResumeRunSimulation(1)
  \/ StopSimulation

SpecArgs == Init /\ [][NextArgs]_vars

----------------------------------------------------------------------------
(* BatchSimulator: one run and exportResults() calls *)

\* the results objects a caller can hold: those handed to onComplete
Delivered(r) == r \in Runs /\ hist[r].completeCalls = 1

\* exportResults(results, format), called while the thread is free; resultsArg
\* is 0 when no results object is passed, else the call whose results are passed
ExportResults(resultsArg, format) ==
  /\ active = 0
  /\ resultsArg = 0 \/ Delivered(resultsArg)
  /\ LET of == IF resultsArg # 0 THEN resultsArg ELSE currentSimulation
         call == [NotExported EXCEPT !.format = format, !.arg = resultsArg, !.of = of]
     IN  exported' =
           IF of = 0 THEN [call EXCEPT !.status = "NoData"]
           ELSE IF ToLowerCase(format) = "csv"
           THEN [call EXCEPT !.status = "ok", !.csv = <<ExportToCsv(run[of].results)>>]
           ELSE IF ToLowerCase(format) = "json"
           THEN [call EXCEPT !.status = "ok", !.json = <<JsonStringify(run[of].results)>>]
           ELSE [call EXCEPT !.status = "UnsupportedFormat"]
  /\ UNCHANGED <<batchVars, gameVars, analyzed, pageVars>>

NextExport ==
  \/ \E totalGames \in TotalGamesArgs, strategies \in StrategiesArgs,
        speed \in SpeedArgs, chunkSize \in ChunkSizeArgs :
       RunSimulation(1, totalGames, strategies, speed, chunkSize)
  \/ RunStrategyBatchPass(1)
  \/ ResumeRunSimulation(1)
  \/ StopSimulation
  \/ \E resultsArg \in 0..MaxRuns, format \in FormatArgs : ExportResults(resultsArg, format)

SpecExport == Init /\ [][NextExport]_vars

----------------------------------------------------------------------------
(* BatchSimulator and StatisticalAnalyzer: one run and analyses of its results *)

\* a call of one of the analyzer's public analyses on the results of a run,
\* made while the thread is free
AnalyzerCall(method, resultsArg) ==
  /\ active = 0
  /\ Delivered(resultsArg)
  /\ Len(analyzed) < MaxAnalyses
  /\ analyzed' = Append(analyzed,
       [method |-> method, of |-> resultsArg,
        outcome |-> Analyze(method, run[resultsArg].results)])
  /\ UNCHANGED <<batchVars, gameVars, exported, pageVars>>

NextStats ==
  \/ \E totalGames \in TotalGamesArgs, strategies \in StrategiesArgs,
        speed \in SpeedArgs, chunkSize \in ChunkSizeArgs :
       RunSimulation(1, totalGames, strategies, speed, chunkSize)
  \/ RunStrategyBatchPass(1)
  \/ ResumeRunSimulation(1)
  \/ StopSimulation
  \/ \E method \in Analyses, resultsArg \in Runs : AnalyzerCall(method, resultsArg)

SpecStats == Init /\ [][NextStats]_vars

----------------------------------------------------------------------------
(* MontyHallUI: the batch panel *)

\* the chunkSize runSimulation takes when its options carry none
DefaultChunkSize == 100

\* the panel of a new MontyHallUI on the given page
Panel(page) ==
  [page |-> page, isSimulating |-> FALSE, status |-> "ready",
   currentSimulationResults |-> 0, message |-> "none",
   calls |-> [r \in Runs |-> "none"]]

\* the entry of the microtask queue for startBatchSimulation's
\* `await this.batchSimulator.runSimulation(...)` on call r
Awaiter(r) == 0 - r

\* a click on Start: startBatchSimulation() up to its await
StartBatchSimulation(r, gameCount, selectedStrategies, speed) ==
  /\ microtasks = <<>>
  /\ active = 0
  /\ ~ui.isSimulating
  /\ IF selectedStrategies = <<>>
     THEN /\ ui' = [ui EXCEPT !.message = "Please select at least one strategy to test."]
          /\ UNCHANGED batchVars
     ELSE /\ RunSimulationStep(r, gameCount, selectedStrategies, speed, DefaultChunkSize,
                               "panel", <<Awaiter(r)>>)
          /\ ui' = [ui EXCEPT !.isSimulating = TRUE, !.status = "running",
                              !.calls[r] = "awaiting"]
  /\ UNCHANGED <<gameVars, toolVars, app, stats, statsCall, milestones>>

\* a pass of a run started from the panel
PanelPass(r) ==
  /\ RunStrategyBatchPassStep(r, "panel")
  /\ UNCHANGED <<gameVars, toolVars, pageVars>>

\* the resumption of a run started from the panel; when it completes,
\* handleSimulationComplete stores the results and sets the status
PanelResume(r) ==
  /\ ResumeRunSimulationStep(r, "panel", <<Awaiter(r)>>)
  /\ ui' = IF hist'[r].completeCalls = hist[r].completeCalls THEN ui
           ELSE [ui EXCEPT !.currentSimulationResults = r,
                           !.status = "completed",
                           !.message = IF run'[r].pc = "returned"
                                       THEN "Simulation completed successfully!" ELSE @]
  /\ UNCHANGED <<gameVars, toolVars, app, stats, statsCall, milestones>>

\* startBatchSimulation() after its await: the assignment or the catch block,
\* then the finally block
StartBatchSimulationResume(r) ==
  /\ active = 0
  /\ microtasks # <<>> /\ Head(microtasks) = Awaiter(r)
  /\ microtasks' = Tail(microtasks)
  /\ ui' = IF run[r].pc = "returned"
           THEN [ui EXCEPT !.currentSimulationResults = r,
                           !.calls[r] = "resolved",
                           !.isSimulating = FALSE, !.status = "ready"]
           ELSE [ui EXCEPT !.message = "Simulation failed",
                           !.calls[r] = "failed",
                           !.isSimulating = FALSE, !.status = "ready"]
  /\ UNCHANGED <<isRunning, currentSimulation, run, active, timers, hist, gameVars, toolVars,
               app, stats, statsCall, milestones>>

\* a click on Stop: stopBatchSimulation()
StopBatchSimulation ==
  /\ microtasks = <<>>
  /\ ui.isSimulating
  /\ StopSimulationStep
  /\ ui' = [ui EXCEPT !.isSimulating = FALSE, !.status = "stopped",
                      !.message = "Simulation stopped by user."]
  /\ UNCHANGED <<gameVars, toolVars, app, stats, statsCall, milestones>>

InitUi ==
  /\ BatchInit
  /\ exported = NotExported
  /\ analyzed = <<>>
  /\ \E page \in Pages : ui = Panel(page)
  /\ app = NoApp
  /\ stats = GetDefaultStats
  /\ statsCall = NoStatsCall
  /\ milestones = NoMilestones
  /\ game = NoGame
  /\ ret = NoCall
  /\ chunkOut = <<>>

NextUi ==
  \/ \E r \in Runs, gameCount \in TotalGamesArgs, selectedStrategies \in StrategiesArgs \cup {<<>>},
        speed \in SpeedArgs :
       StartBatchSimulation(r, gameCount, selectedStrategies, speed)
  \/ \E r \in Runs : PanelPass(r)
  \/ \E r \in Runs : PanelResume(r)
  \/ \E r \in Runs : StartBatchSimulationResume(r)
  \/ StopBatchSimulation

SpecUi == InitUi /\ [][NextUi]_vars

----------------------------------------------------------------------------
(* MontyHallGame: operations *)

DoorArgs == {-2, 0, 1, 2, 3}
StrategyArgs == {"stay", "switch", "other"}

\* reset()
ResetGame ==
  /\ \E c \in Doors : game' = Reset(c)
  /\ ret' = NoCall
  /\ UNCHANGED <<chunkOut, batchVars, toolVars, pageVars>>

\* selectDoor(doorIndex) and what it returns
SelectDoorCall(doorIndex) ==
  /\ \E rnd \in SelectDoorRandoms(game, doorIndex) : game' = SelectDoor(game, doorIndex, rnd)
  /\ ret' = [call |-> "selectDoor", door |-> doorIndex, strategy |-> "null",
             value |-> JsBool(SelectDoorAccepts(game, doorIndex))]
  /\ UNCHANGED <<chunkOut, batchVars, toolVars, pageVars>>

\* makeChoice(strategy) and what it returns
MakeChoiceCall(strategy) ==
  /\ game' = MakeChoice(game, strategy)
  /\ ret' = [call |-> "makeChoice", door |-> NullDoor, strategy |-> strategy,
             value |-> JsBool(MakeChoiceAccepts(game, strategy))]
  /\ UNCHANGED <<chunkOut, batchVars, toolVars, pageVars>>

\* runGameChunk(strategy, count)
RunGameChunkCall(strategy, count) ==
  /\ \E chunkResults \in RunGameChunk(strategy, count) : chunkOut' = chunkResults
  /\ UNCHANGED <<game, ret, batchVars, toolVars, pageVars>>

InitGame ==
  /\ BatchInit
  /\ ToolInit
  /\ \E c \in Doors : game = Reset(c)
  /\ ret = NoCall
  /\ chunkOut = <<>>

NextGame ==
  \/ ResetGame
  \/ \E doorIndex \in DoorArgs : SelectDoorCall(doorIndex)
  \/ \E strategy \in StrategyArgs : MakeChoiceCall(strategy)
  \/ \E strategy \in Strategies, count \in 0..MaxChunk : RunGameChunkCall(strategy, count)

SpecGame == InitGame /\ [][NextGame]_vars

----------------------------------------------------------------------------
(* GameStats: recordGame() and resetStats() calls beside a batch run *)

\* recordGame(strategy, won)
RecordGameCall(strategy, won) ==
  /\ stats.totalGames < MaxRecorded \/ strategy \notin Strategies
  /\ stats' = RecordGame(stats, strategy, won)
  /\ statsCall' = [call |-> "recordGame", strategy |-> strategy, won |-> won]
  /\ UNCHANGED <<gameVars, batchVars, toolVars, ui, app, milestones>>

\* resetStats()
ResetStatsCall ==
  /\ stats' = GetDefaultStats
  /\ statsCall' = [NoStatsCall EXCEPT !.call = "resetStats"]
  /\ UNCHANGED <<gameVars, batchVars, toolVars, ui, app, milestones>>

\* a batch run with callbacks that return and the default speed and chunkSize,
\* on the simulator beside the stats
LifetimeRunSimulation(totalGames, strategies) ==
  /\ RunSimulationStep(1, totalGames, strategies, "fast", DefaultChunkSize,
                       "returns", <<>>)
  /\ UNCHANGED <<gameVars, toolVars, pageVars>>

LifetimePass ==
  /\ RunStrategyBatchPassStep(1, "returns")
  /\ UNCHANGED <<gameVars, toolVars, pageVars>>

LifetimeResume ==
  /\ ResumeRunSimulationStep(1, "returns", <<>>)
  /\ UNCHANGED <<gameVars, toolVars, pageVars>>

NextLifetime ==
  \/ \E strategy \in StrategyArgs, won \in {"true", "false"} : RecordGameCall(strategy, won)
  \/ ResetStatsCall
  \/ \E totalGames \in TotalGamesArgs, strategies \in StrategiesArgs :
       LifetimeRunSimulation(totalGames, strategies)
  \/ LifetimePass
  \/ LifetimeResume

SpecLifetime == Init /\ [][NextLifetime]_vars

----------------------------------------------------------------------------
(* MontyHallUI: the game panel *)

\* the game panel of a new MontyHallUI; beside isAnimating and the handlers
\* suspended in an animation wait (in the order of their setTimeout calls) it
\* notes the games that reached 'finished', the recordGame calls made, the
\* recordGame calls made since the game was last reset, and the last of them
NewApp ==
  [isAnimating |-> FALSE, handlers |-> <<>>, clicks |-> 0,
   finishes |-> 0, recordCalls |-> 0, gameRecords |-> 0,
   lastRecord |-> [strategy |-> "null", won |-> "null"]]

\* the wait(ms) of each animation
AnimationWait(pc) ==
  CASE pc = "animateDoorSelection" -> 300
    [] pc = "animateHostReveal" -> 500
    [] pc = "animateChoice" -> 200
    [] pc = "animateFinalReveal" -> 800
    [] pc = "showAllDoors" -> 500

\* getAvailableDoors()
GetAvailableDoors(g) == IF g.gamePhase = "selecting" THEN {0, 1, 2} ELSE {}

\* canMakeChoice()
CanMakeChoice(g) == g.gamePhase = "revealed"

\* a wait ends after every wait that was started earlier and is not longer
WaitDue(k) ==
  \A j \in 1..(k - 1) :
    AnimationWait(app.handlers[j].pc) > AnimationWait(app.handlers[k].pc)

RemoveHandler(k) ==
  SubSeq(app.handlers, 1, k - 1) \o SubSeq(app.handlers, k + 1, Len(app.handlers))

\* (faulty variant of ShouldRecord: recordGame is called whatever makeChoice returned)
ShouldRecordAlways(success) == TRUE

\* handleChoice calls recordGame inside `if (success)`
ShouldRecord(success) == success

\* handleDoorClick(doorIndex), up to `await this.animateDoorSelection(doorIndex)`
HandleDoorClick(doorIndex) ==
  /\ app.clicks < MaxClicks
  /\ ~(app.isAnimating \/ doorIndex \notin GetAvailableDoors(game))
  /\ app' = [app EXCEPT !.isAnimating = TRUE, !.clicks = @ + 1,
                        !.handlers = Append(@, [kind |-> "handleDoorClick", door |-> doorIndex,
                                                strategy |-> "null",
                                                pc |-> "animateDoorSelection"])]
  /\ UNCHANGED <<gameVars, batchVars, toolVars, ui, stats, statsCall, milestones>>

\* handleDoorClick after one of its waits: selectDoor and the start of the host
\* reveal, or the end of the handler
ResumeHandleDoorClick(k) ==
  /\ k \in DOMAIN app.handlers
  /\ app.handlers[k].kind = "handleDoorClick"
  /\ WaitDue(k)
  /\ LET h == app.handlers[k]
         success == SelectDoorAccepts(game, h.door)
     IN
     IF h.pc = "animateDoorSelection"
     THEN /\ \E rnd \in SelectDoorRandoms(game, h.door) : game' = SelectDoor(game, h.door, rnd)
          /\ app' = IF success
                    THEN [app EXCEPT !.handlers =
                            Append(RemoveHandler(k), [h EXCEPT !.pc = "animateHostReveal"])]
                    ELSE [app EXCEPT !.handlers = RemoveHandler(k), !.isAnimating = FALSE]
     ELSE /\ app' = [app EXCEPT !.handlers = RemoveHandler(k), !.isAnimating = FALSE]
          /\ UNCHANGED game
  /\ UNCHANGED <<ret, chunkOut, batchVars, toolVars, ui, stats, statsCall, milestones>>

\* handleChoice(strategy), up to `await this.animateChoice(strategy)`
HandleChoice(strategy) ==
  /\ app.clicks < MaxClicks
  /\ ~(app.isAnimating \/ ~CanMakeChoice(game))
  /\ app' = [app EXCEPT !.isAnimating = TRUE, !.clicks = @ + 1,
                        !.handlers = Append(@, [kind |-> "handleChoice", door |-> NullDoor,
                                                strategy |-> strategy,
                                                pc |-> "animateChoice"])]
  /\ UNCHANGED <<gameVars, batchVars, toolVars, ui, stats, statsCall, milestones>>

\* handleChoice after one of its waits: makeChoice, recordGame and the start of
\* the final reveal; the second wait of the final reveal; the end of the handler
ResumeHandleChoice(k) ==
  /\ k \in DOMAIN app.handlers
  /\ app.handlers[k].kind = "handleChoice"
  /\ WaitDue(k)
  /\ LET h == app.handlers[k]
         success == MakeChoiceAccepts(game, h.strategy)
         made == MakeChoice(game, h.strategy)
         finished == IF made.gamePhase = "finished" /\ game.gamePhase # "finished" THEN 1 ELSE 0
     IN
     IF h.pc = "animateChoice"
     THEN /\ game' = made
          /\ stats' = IF ShouldRecord(success) THEN RecordGame(stats, h.strategy, made.won)
                      ELSE stats
          /\ app' =
               LET noted == IF ShouldRecord(success)
                            THEN [app EXCEPT !.recordCalls = @ + 1, !.gameRecords = @ + 1,
                                             !.lastRecord = [strategy |-> h.strategy,
                                                             won |-> made.won],
                                             !.finishes = @ + finished]
                            ELSE [app EXCEPT !.finishes = @ + finished]
               IN  IF success
                   THEN [noted EXCEPT !.handlers =
                           Append(RemoveHandler(k), [h EXCEPT !.pc = "animateFinalReveal"])]
                   ELSE [noted EXCEPT !.handlers = RemoveHandler(k), !.isAnimating = FALSE]
     ELSE IF h.pc = "animateFinalReveal"
     THEN /\ app' = [app EXCEPT !.handlers =
                       Append(RemoveHandler(k), [h EXCEPT !.pc = "showAllDoors"])]
          /\ UNCHANGED <<game, stats>>
     ELSE /\ app' = [app EXCEPT !.handlers = RemoveHandler(k), !.isAnimating = FALSE]
          /\ UNCHANGED <<game, stats>>
  /\ UNCHANGED <<ret, chunkOut, batchVars, toolVars, ui, statsCall, milestones>>

\* resetGame(): a click on Play Again or the key R
ResetGameClick ==
  /\ ~app.isAnimating
  /\ \E c \in Doors : game' = Reset(c)
  /\ app' = [app EXCEPT !.gameRecords = 0]
  /\ UNCHANGED <<ret, chunkOut, batchVars, toolVars, ui, stats, statsCall, milestones>>

\* the visibilitychange listener of MontyHallApp, when the page becomes hidden
VisibilityHidden ==
  /\ app' = [app EXCEPT !.isAnimating = FALSE]
  /\ UNCHANGED <<gameVars, batchVars, toolVars, ui, stats, statsCall, milestones>>

InitApp ==
  /\ BatchInit
  /\ exported = NotExported
  /\ analyzed = <<>>
  /\ ui = NoPanel
  /\ app = NewApp
  /\ stats = GetDefaultStats
  /\ statsCall = NoStatsCall
  /\ milestones = NoMilestones
  /\ \E c \in Doors : game = Reset(c)
  /\ ret = NoCall
  /\ chunkOut = <<>>

NextApp ==
  \/ \E doorIndex \in DoorArgs : HandleDoorClick(doorIndex)
  \/ \E k \in 1..MaxClicks : ResumeHandleDoorClick(k)
  \/ \E strategy \in Strategies : HandleChoice(strategy)
  \/ \E k \in 1..MaxClicks : ResumeHandleChoice(k)
  \/ ResetGameClick
  \/ VisibilityHidden

SpecApp == InitApp /\ [][NextApp]_vars

----------------------------------------------------------------------------
(* StatisticalAnalyzer: findConvergenceMilestones on the history of a batch *)

RECURSIVE Histories(_, _, _)
\* the winRateHistory arrays runStrategyBatch can leave after at most n more
\* chunks of HistoryChunk games, from played games of which won were won
Histories(n, played, won) ==
  {<<>>} \cup
  (IF n = 0 THEN {}
   ELSE UNION { { <<[gameNumber |-> played + HistoryChunk,
                     winRate |-> Frac(won + w, played + HistoryChunk),
                     wins |-> won + w]>> \o rest :
                    rest \in Histories(n - 1, played + HistoryChunk, won + w) } :
                w \in 0..HistoryChunk })

\* findConvergenceMilestones(history, theoretical), as analyzeConvergence calls it
FindConvergenceMilestonesCall ==
  /\ milestones.result = <<>>
  /\ milestones' =
       [milestones EXCEPT !.result =
          <<FindConvergenceMilestones(milestones.history,
                                      TheoreticalProbabilities(milestones.strategy))>>]
  /\ UNCHANGED <<gameVars, batchVars, toolVars, ui, app, stats, statsCall>>

InitMilestones ==
  /\ BatchInit
  /\ exported = NotExported
  /\ analyzed = <<>>
  /\ ui = NoPanel
  /\ app = NoApp
  /\ stats = GetDefaultStats
  /\ statsCall = NoStatsCall
  /\ \E strategy \in Strategies, history \in Histories(MaxPoints, 0, 0) :
       milestones = [strategy |-> strategy, history |-> history, result |-> <<>>]
  /\ game = NoGame
  /\ ret = NoCall
  /\ chunkOut = <<>>

NextMilestones == FindConvergenceMilestonesCall

SpecMilestones == InitMilestones /\ [][NextMilestones]_vars

----------------------------------------------------------------------------
(* Properties *)

Last(seq) == seq[Len(seq)]

\* the trials a run holds: those of the batch in progress and of its results
TrialsWon(games) == Cardinality({k \in DOMAIN games : games[k].won = "true"})

\* C1: on one BatchSimulator at most one run is in progress at any time, for
\* every interleaving of runSimulation() calls, stopSimulation() calls and
\* resumptions (a call made while an earlier run has not finished is rejected).
C1_AtMostOneRunInProgress ==
  Cardinality({r \in Runs : InProgress(r)}) <= 1

\* C2: once stopSimulation() has been called while a run is in progress, that
\* run begins no further chunk, whatever operations follow.
C2_NoChunkAfterStop ==
  [][\A r \in Runs : hist[r].stopCalled => hist'[r].chunks = hist[r].chunks]_vars

\* the host's door is one of the three and neither the car's nor the player's
HostRevealsGoat(t) ==
  /\ t.hostRevealedDoor \in Doors
  /\ t.hostRevealedDoor \notin {t.carDoor, t.playerChoice}

\* C3: in every game in which a door has been selected, and in every trial
\* runGameChunk records, the door the host reveals is in {0,1,2} and is neither
\* the car door nor the player's chosen door.
C3_HostRevealsGoat ==
  /\ game.playerChoice # NullDoor => HostRevealsGoat(game)
  /\ \A k \in DOMAIN chunkOut : HostRevealsGoat(chunkOut[k])

C3_Witness ==
  /\ game.gamePhase = "revealed"
  /\ game.playerChoice = game.carDoor
  /\ game.hostRevealedDoor = 2
  /\ Len(chunkOut) = 2
  /\ chunkOut[1].carDoor = 0 /\ chunkOut[1].hostRevealedDoor = 1
  /\ chunkOut[2].carDoor = 1 /\ chunkOut[2].hostRevealedDoor = 2

\* the rule of the game: switching wins exactly when the first choice was not
\* the car, staying wins exactly when it was
WinRule(t, strategy) ==
  /\ t.won \in {"true", "false"}
  /\ strategy = "switch" => (t.won = "true" <=> t.playerChoice # t.carDoor)
  /\ strategy = "stay" => (t.won = "true" <=> t.playerChoice = t.carDoor)

\* C4: every finished game (any car position, initial choice and host reveal)
\* and every recorded trial is won, under 'switch', exactly when playerChoice #
\* carDoor and, under 'stay', exactly when playerChoice = carDoor.
C4_WinRule ==
  /\ game.gamePhase = "finished" => WinRule(game, game.playerStrategy)
  /\ \A k \in DOMAIN chunkOut : WinRule(chunkOut[k], chunkOut[k].strategy)

C4_Witness ==
  /\ game.gamePhase = "finished"
  /\ game.playerStrategy = "switch"
  /\ game.playerChoice = 1 /\ game.carDoor = 2 /\ game.won = "true"
  /\ Len(chunkOut) = 2
  /\ chunkOut[1].strategy = "stay" /\ chunkOut[1].won = "false"
  /\ chunkOut[2].won = "true"

\* the outcomes of a game with the car behind car, first choice choice and the
\* given strategy, over every draw of the host
Outcomes(strategy, car, choice) ==
  { MakeChoice(SelectDoor(Reset(car), choice, rnd), strategy).won :
      rnd \in SelectDoorRandoms(Reset(car), choice) }

\* the car positions at which the strategy wins whatever the host draws
WinningCars(strategy, choice) ==
  {car \in Doors : Outcomes(strategy, car, choice) = {"true"}}

\* the game as it stood after selectDoor, rebuilt from a recorded trial
Revealed(t) ==
  [Reset(t.carDoor) EXCEPT !.playerChoice = t.playerChoice,
                           !.hostRevealedDoor = t.hostRevealedDoor,
                           !.gamePhase = "revealed"]

\* C5: with the first choice fixed at door 0, over the three car positions and
\* every host tie-break 'stay' wins for exactly 1 position and 'switch' for
\* exactly 2; for any car position and first choice exactly one of the two
\* strategies wins (in the game at hand and in every recorded trial too).
C5_OneThirdTwoThirds ==
  /\ Cardinality(WinningCars("stay", 0)) = 1
  /\ Cardinality(WinningCars("switch", 0)) = 2
  /\ \A car \in Doors, choice \in Doors :
       /\ Outcomes("stay", car, choice) \in {{"true"}, {"false"}}
       /\ Outcomes("switch", car, choice) \in {{"true"}, {"false"}}
       /\ Outcomes("stay", car, choice) # Outcomes("switch", car, choice)
  /\ game.gamePhase = "revealed" =>
       MakeChoice(game, "stay").won # MakeChoice(game, "switch").won
  /\ \A k \in DOMAIN chunkOut :
       /\ MakeChoice(Revealed(chunkOut[k]), chunkOut[k].strategy).won = chunkOut[k].won
       /\ MakeChoice(Revealed(chunkOut[k]), "stay").won
            # MakeChoice(Revealed(chunkOut[k]), "switch").won

C5_Witness ==
  /\ game.gamePhase = "revealed"
  /\ game.playerChoice = 0 /\ game.carDoor = 0 /\ game.hostRevealedDoor = 2
  /\ Len(chunkOut) = 2
  /\ chunkOut[1].strategy = "switch"
  /\ chunkOut[1].carDoor = 0 /\ chunkOut[1].won = "false"
  /\ chunkOut[2].carDoor = 2 /\ chunkOut[2].won = "true"

\* a strategy batch is aggregated up to its last chunk
BatchConsistent(b) ==
  /\ Len(b.games) = b.played
  /\ b.won = TrialsWon(b.games)
  /\ 0 <= b.won /\ b.won <= b.played
  /\ b.played > 0 =>
       /\ Len(b.winRateHistory) > 0
       /\ FracEq(Last(b.winRateHistory).winRate, Frac(b.won, b.played))

\* C6: for every strategy batch, at every chunk boundary of a run and in the
\* results of every run that has ended (completed or stopped): the stored
\* trials number played, won is the number of stored trials that were won,
\* 0 <= won <= played, and when played > 0 the last winRateHistory point has
\* winRate == won / played.
C6_BatchConsistent ==
  \A r \in Runs :
    /\ BatchConsistent(run[r].batch)
    /\ \A s \in Strategies : BatchConsistent(run[r].results.data[s])

C6_Witness ==
  \E r \in Runs :
    /\ run[r].pc = "returned"
    /\ hist[r].stopCalled /\ hist[r].cancelSeen
    /\ run[r].totalGames = 3
    /\ run[r].strategies = <<"stay">>
    /\ run[r].results.data["stay"].played = 2
    /\ run[r].results.data["stay"].won = 1

\* the run went through its completion path and its cancellation check never fired
Uncancelled(r) == hist[r].completeCalls = 1 /\ ~hist[r].cancelSeen

\* C7: an uncancelled run generates exactly floor(totalGames / |strategies|)
\* trials for each requested strategy, whatever the chunkSize; in total
\* |strategies| * floor(totalGames / |strategies|) <= totalGames trials.
C7_FloorPartition ==
  \A r \in Runs :
    Uncancelled(r) =>
      LET R == run[r]
          share == R.totalGames \div Len(R.strategies)
      IN  /\ \A k \in DOMAIN R.strategies :
               /\ R.results.data[R.strategies[k]].played = share
               /\ Len(R.results.data[R.strategies[k]].games) = share
          /\ hist[r].generated = Len(R.strategies) * share
          /\ hist[r].generated <= R.totalGames

C7_Witness ==
  \E r \in Runs :
    /\ Uncancelled(r)
    /\ run[r].totalGames = 3
    /\ run[r].strategies = <<"stay", "switch">>
    /\ hist[r].generated = 2

\* C8: within one run onProgress is invoked exactly once per chunk, after the
\* chunk's trials have been aggregated and in the same step as the chunk (so
\* before the suspension that precedes the next chunk); the events carry
\* strictly increasing `completed` values, each the number of trials the run
\* has generated so far over all its strategies, `total` is totalGames and
\* `strategy` is the strategy being processed.
C8_ProgressPerChunk ==
  [][\A r \in Runs :
       LET h == hist[r]
           h2 == hist'[r]
           n == Len(h.progress)
       IN  /\ Len(h2.progress) = h2.chunks
           /\ (h2.chunks # h.chunks \/ h2.progress # h.progress) =>
                /\ h2.chunks = h.chunks + 1
                /\ Len(h2.progress) = n + 1
                /\ SubSeq(h2.progress, 1, n) = h.progress
                /\ h2.generated > h.generated
                /\ run'[r].batch.played = run[r].batch.played + (h2.generated - h.generated)
                /\ Len(run'[r].batch.games) = run'[r].batch.played
                /\ Last(h2.progress).completed = h2.generated
                /\ Last(h2.progress).completed > (IF n = 0 THEN 0 ELSE Last(h.progress).completed)
                /\ Last(h2.progress).total = run[r].totalGames
                /\ Last(h2.progress).strategy = run[r].strategies[run[r].sIdx]
                /\ run'[r].sIdx = run[r].sIdx
  ]_vars

C8_Witness ==
  \E r \in Runs :
    /\ run[r].strategies = <<"stay", "switch">>
    /\ run[r].totalGames = 3
    /\ Len(hist[r].progress) = 2
    /\ hist[r].progress[1].strategy = "stay" /\ hist[r].progress[1].completed = 1
    /\ hist[r].progress[2].strategy = "switch" /\ hist[r].progress[2].completed = 2

\* C9: a run that ends because stopSimulation() was called is not delivered
\* through the completion path of a run that generated all its trials: its
\* onComplete is not invoked and it does not return like a completed run.
C9_StoppedRunNotCompleted ==
  \A r \in Runs :
    hist[r].stopCalled /\ hist[r].cancelSeen =>
      hist[r].completeCalls = 0 /\ run[r].pc # "returned"

\* the options runSimulation documents: a positive totalGames, a positive
\* chunkSize, a non-empty list of 'stay' / 'switch'
ValidOptions(totalGames, strategies, chunkSize) ==
  /\ totalGames > 0
  /\ chunkSize > 0
  /\ strategies # <<>>
  /\ \A k \in DOMAIN strategies : strategies[k] \in Strategies

\* C11: a runSimulation() call whose totalGames is not positive, whose chunkSize
\* is not positive, or whose strategies list is empty or holds a value other
\* than 'stay' / 'switch' is rejected: it is never accepted as a run, generates
\* no trial, and leaves isRunning false.
C11_InvalidArgumentsRejected ==
  \A r \in Runs :
    run[r].pc \notin {"unstarted", "rejected"} =>
      ValidOptions(run[r].totalGames, run[r].strategies, run[r].chunkSize)

\* C10: whenever a run ends (all trials generated, stopped, or a throw in
\* onProgress or onComplete) isRunning is false; a runSimulation() call made
\* while isRunning is false is accepted; a failed run is never taken up again.
C10_IdleAfterEnd ==
  [][\A r \in Runs :
       /\ (InProgress(r) /\ run'[r].pc \in {"returned", "failed"}) => isRunning' = FALSE
       /\ (run[r].pc = "unstarted" /\ run'[r].pc # "unstarted" /\ ~isRunning)
            => run'[r].pc = "loop" /\ isRunning'
       /\ run[r].pc = "failed" => run'[r] = run[r] /\ hist'[r] = hist[r]
  ]_vars

C10_Witness ==
  /\ run[1].pc = "failed" /\ run[1].error
  /\ ~hist[1].stopCalled
  /\ hist[1].generated > 0
  /\ run[2].pc = "returned"
  /\ ~isRunning

\* the strategy batches a call holds: the one being built and those of its results
BatchesOf(r) ==
  {run[r].batch} \cup {run[r].results.data[s] : s \in DOMAIN run[r].results.data}

\* C12: the results of a run that completed normally have no statistics: the
\* statistics field is still null when the run has returned.
C12_StatisticsUnset ==
  \A r \in Runs :
    run[r].pc = "returned" /\ ~hist[r].cancelSeen => run[r].results.statistics = <<>>

\* C13: the winRateHistory of a strategy batch holds one point per generated
\* trial: its length is played and its gameNumber values are 1, 2, ..., played.
C13_OnePointPerTrial ==
  \A r \in Runs : \A b \in BatchesOf(r) :
    b.hasHistory =>
      /\ Len(b.winRateHistory) = b.played
      /\ \A k \in DOMAIN b.winRateHistory : b.winRateHistory[k].gameNumber = k

\* along the history gameNumber grows strictly, wins never shrinks, and each
\* point's wins and winRate are those of the trials generated up to it
HistoryMonotonic(b) ==
  LET h == b.winRateHistory
  IN  \A k \in DOMAIN h :
        /\ 1 <= h[k].gameNumber /\ h[k].gameNumber <= b.played
        /\ k > 1 => /\ h[k].gameNumber > h[k - 1].gameNumber
                    /\ h[k].wins >= h[k - 1].wins
        /\ h[k].wins = TrialsWon(SubSeq(b.games, 1, h[k].gameNumber))
        /\ FracEq(h[k].winRate, Frac(h[k].wins, h[k].gameNumber))

\* C14: in every strategy batch's winRateHistory, at every chunk boundary and
\* in the results of every run that has ended (completed or stopped),
\* gameNumber is strictly increasing, the cumulative win count is
\* non-decreasing, and every point has winRate == (wins among the trials
\* generated up to that point) / gameNumber.
C14_HistoryMonotonic ==
  \A r \in Runs : \A b \in BatchesOf(r) : HistoryMonotonic(b)

C14_Witness ==
  \E r \in Runs :
    /\ run[r].pc = "returned"
    /\ hist[r].stopCalled /\ hist[r].cancelSeen
    /\ run[r].totalGames = 3 /\ run[r].chunkSize = 1
    /\ LET h == run[r].results.data["switch"].winRateHistory
       IN  /\ Len(h) = 2
           /\ h[1].wins = 0 /\ h[2].wins = 1 /\ h[2].gameNumber = 2

RECURSIVE AllTrials(_, _)
\* the trials of a results object, strategy after strategy, from its k-th strategy
AllTrials(results, k) ==
  IF k > Len(results.strategies) THEN <<>>
  ELSE results.data[results.strategies[k]].games \o AllTrials(results, k + 1)

RECURSIVE SumPlayed(_, _)
\* played, summed over the strategies of a results object from the k-th on
SumPlayed(results, k) ==
  IF k > Len(results.strategies) THEN 0
  ELSE results.data[results.strategies[k]].played + SumPlayed(results, k + 1)

\* C15: the CSV export of a result (of a completed or a stopped run) is the
\* fixed header line followed by exactly one data row per recorded trial, in
\* generation order per strategy; the number of data rows is the sum of played
\* over the result's strategies.
C15_CsvRowPerTrial ==
  exported.csv # <<>> =>
    LET csv == exported.csv[1]
        results == run[exported.of].results
        trials == AllTrials(results, 1)
    IN  /\ csv.header = CsvHeader
        /\ Len(csv.rows) = SumPlayed(results, 1)
        /\ Len(csv.rows) = Len(trials)
        /\ \A j \in DOMAIN csv.rows :
             /\ csv.rows[j].Strategy = trials[j].strategy
             /\ csv.rows[j].PlayerChoice = trials[j].playerChoice
             /\ csv.rows[j].HostRevealed = trials[j].hostRevealedDoor
             /\ csv.rows[j].FinalChoice = trials[j].finalChoice
             /\ csv.rows[j].CarDoor = trials[j].carDoor
             /\ csv.rows[j].Won = trials[j].won

C15_Witness ==
  /\ exported.csv # <<>>
  /\ hist[exported.of].stopCalled /\ hist[exported.of].cancelSeen
  /\ run[exported.of].totalGames = 3
  /\ Len(exported.csv[1].rows) = 2
  /\ exported.csv[1].rows[1].Won = "true" /\ exported.csv[1].rows[2].Won = "false"

\* C16: in the CSV export the WinRate field of the row of the i-th trial of a
\* strategy is the cumulative win rate after that trial: (wins among the
\* strategy's first i trials) / i, printed with four decimals.
C16_CsvCumulativeWinRate ==
  exported.csv # <<>> =>
    LET rows == exported.csv[1].rows
        results == run[exported.of].results
    IN  \A k \in DOMAIN results.strategies :
          LET data == results.data[results.strategies[k]]
              offset == SumPlayed(results, 1) - SumPlayed(results, k)
          IN  \A i \in 1..data.played :
                rows[offset + i].WinRate
                  = ToFixed4(Frac(TrialsWon(SubSeq(data.games, 1, i)), i))

\* the tokens that are 'json' / 'csv' up to letter case, among those drawn
JsonTokens == {"json", "JSON"}
CsvTokens == {"csv", "Csv"}

\* C17: exportResults fails with the no-data error when no result is passed
\* and no run has completed yet; otherwise it succeeds exactly for the tokens
\* that are 'json' or 'csv' up to letter case (producing that format) and
\* fails with the unsupported-format error for every other token; in every
\* case the stored result and the runner state are as before the call.
C17_ExportFormats ==
  [][exported' # exported =>
       LET e == exported'
           available == e.arg # 0 \/ currentSimulation # 0
       IN  /\ UNCHANGED batchVars
           /\ e.status = IF ~available THEN "NoData"
                         ELSE IF e.format \in JsonTokens \cup CsvTokens THEN "ok"
                         ELSE "UnsupportedFormat"
           /\ e.status = "ok" => /\ e.csv # <<>> <=> e.format \in CsvTokens
                                 /\ e.json # <<>> <=> e.format \in JsonTokens
           /\ e.status # "ok" => e.csv = <<>> /\ e.json = <<>>
  ]_vars

C17_Witness ==
  /\ exported.status = "ok"
  /\ exported.format = "JSON"
  /\ exported.arg = 0 /\ exported.of = 1
  /\ exported.json # <<>>
  /\ currentSimulation = 1

\* the analyses that compute a statistic from a strategy's sample size
SampleStatistics ==
  {"analyzeResults", "calculateDescriptiveStats", "calculateInferentialStats"}

\* C18: no statistic is produced for a strategy with played == 0: the batch
\* runner's own summary and confidence interval do not exist for such a
\* strategy, and an analysis of a result that has such a strategy fails with
\* InsufficientSample.
C18_InsufficientSample ==
  /\ \A r \in Runs :
       run[r].results.statistics # <<>> =>
         \A s \in DOMAIN run[r].results.statistics[1].summary :
           run[r].results.statistics[1].summary[s].total > 0
  /\ \A k \in DOMAIN analyzed :
       (/\ analyzed[k].method \in SampleStatistics
        /\ \E s \in StrategySet(run[analyzed[k].of].results) :
             run[analyzed[k].of].results.data[s].played = 0)
         => analyzed[k].outcome.status = "InsufficientSample"

\* 0 <= lower <= p <= upper <= 1
UnitInterval(lower, p, upper) ==
  /\ ~SurdNaN(lower) /\ ~SurdNaN(upper)
  /\ ~SurdLtZero(lower) /\ ~SurdGtOne(upper)
  /\ FracGeSurd(p, lower) /\ FracLeSurd(p, upper)

\* the intervals calculateInferentialStats and prepareVisualizationData take
\* from calculateConfidenceInterval, for the strategies with played >= 1
AnalyzerIntervalsInUnit ==
  \A r \in Runs : Delivered(r) =>
    \A s \in StrategySet(run[r].results) :
      LET data == run[r].results.data[s]
          p == Frac(data.won, data.played)
          inferential == CalculateInferentialStats(run[r].results)[s]
          visual == PrepareVisualizationData(run[r].results).confidenceIntervals[s]
      IN  data.played >= 1 =>
            /\ UnitInterval(inferential.ci95.lower, p, inferential.ci95.upper)
            /\ UnitInterval(inferential.ci99.lower, p, inferential.ci99.upper)
            /\ UnitInterval(visual.lower, p, visual.upper)

\* C19: every confidence interval produced for a strategy with played = n >= 1
\* and p = won / n, the one the batch runner stores in
\* results.statistics.confidence and those of
\* StatisticalAnalyzer.calculateConfidenceInterval, has
\* 0 <= lower <= p <= upper <= 1.
C19_ConfidenceInUnitInterval ==
  /\ \A r \in Runs :
       run[r].results.statistics # <<>> =>
         \A s \in DOMAIN run[r].results.statistics[1].confidence :
           LET data == run[r].results.data[s]
               ci == run[r].results.statistics[1].confidence[s]
           IN  data.played >= 1 =>
                 UnitInterval(ci.lower, Frac(data.won, data.played), ci.upper)
  /\ AnalyzerIntervalsInUnit

Reveals(car, choice) ==
  { SelectDoor(Reset(car), choice, rnd).hostRevealedDoor :
      rnd \in SelectDoorRandoms(Reset(car), choice) }

\* C21: the host's reveal is a choice only when the player picked the car: with
\* playerChoice = carDoor each of the two other doors can be revealed; with
\* playerChoice # carDoor the revealed door is the one determined by carDoor and
\* playerChoice (carDoor 0, playerChoice 1 always gives 2), in the game at hand
\* and in every recorded trial.
C21_RevealChoiceOnlyOnCar ==
  /\ \A car \in Doors, choice \in Doors :
       Reveals(car, choice) = Doors \ {car, choice}
  /\ \A car \in Doors : Cardinality(Reveals(car, car)) = 2
  /\ Reveals(0, 1) = {2}
  /\ (game.gamePhase = "revealed" /\ game.playerChoice # game.carDoor)
       => game.hostRevealedDoor = 3 - game.carDoor - game.playerChoice
  /\ \A k \in DOMAIN chunkOut :
       IF chunkOut[k].playerChoice # chunkOut[k].carDoor
       THEN chunkOut[k].hostRevealedDoor = 3 - chunkOut[k].carDoor - chunkOut[k].playerChoice
       ELSE chunkOut[k].hostRevealedDoor \in Doors \ {chunkOut[k].carDoor}

C21_Witness ==
  /\ game.gamePhase = "revealed"
  /\ game.carDoor = 0 /\ game.playerChoice = 1 /\ game.hostRevealedDoor = 2
  /\ Len(chunkOut) = 2
  /\ chunkOut[1].carDoor = 0 /\ chunkOut[1].playerChoice = 0
  /\ chunkOut[1].hostRevealedDoor = 1
  /\ chunkOut[2].carDoor = 0 /\ chunkOut[2].playerChoice = 0
  /\ chunkOut[2].hostRevealedDoor = 2

\* finalChoice as the strategy prescribes, and won decided on it
FinalChoiceRule(t, strategy) ==
  /\ strategy = "stay" => t.finalChoice = t.playerChoice
  /\ strategy = "switch" =>
       /\ t.finalChoice \in Doors
       /\ t.finalChoice # t.hostRevealedDoor
       /\ Doors \ {t.playerChoice, t.hostRevealedDoor} = {t.finalChoice}
  /\ t.won = JsBool(t.finalChoice = t.carDoor)

\* C22: in every finished game and every recorded trial, finalChoice is
\* playerChoice under 'stay' and, under 'switch', the one door of {0,1,2} that
\* is neither playerChoice nor hostRevealedDoor (never null, never the revealed
\* door); in both cases won is (finalChoice = carDoor).
C22_FinalChoice ==
  /\ game.gamePhase = "finished" => FinalChoiceRule(game, game.playerStrategy)
  /\ \A k \in DOMAIN chunkOut : FinalChoiceRule(chunkOut[k], chunkOut[k].strategy)

C22_Witness ==
  /\ game.gamePhase = "finished"
  /\ game.playerStrategy = "switch"
  /\ game.playerChoice = 2 /\ game.hostRevealedDoor = 0 /\ game.finalChoice = 1
  /\ game.carDoor = 1 /\ game.won = "true"
  /\ Len(chunkOut) = 2
  /\ chunkOut[1].strategy = "stay" /\ chunkOut[1].finalChoice = 0
  /\ chunkOut[1].carDoor = 2 /\ chunkOut[1].won = "false"

\* C23: a selectDoor call with a door outside {0,1,2} is refused (it returns
\* false) and changes nothing: in a game that was in its 'selecting' phase no
\* reveal is made, playerChoice stays unset, the phase stays 'selecting', and
\* selecting any of the three doors afterwards succeeds.
C23_InvalidDoorRefused ==
  [][(ret' # ret /\ ret'.call = "selectDoor" /\ ret'.door \notin Doors) =>
       /\ ret'.value = "false"
       /\ game' = game
       /\ game.gamePhase = "selecting" =>
            /\ game'.gamePhase = "selecting"
            /\ game'.playerChoice = NullDoor
            /\ game'.hostRevealedDoor = NullDoor
            /\ \A doorIndex \in Doors :
                 /\ SelectDoorAccepts(game', doorIndex)
                 /\ \A rnd \in SelectDoorRandoms(game', doorIndex) :
                      /\ SelectDoor(game', doorIndex, rnd).playerChoice = doorIndex
                      /\ SelectDoor(game', doorIndex, rnd).gamePhase = "revealed"
  ]_vars

C23_Witness ==
  /\ ret = [call |-> "selectDoor", door |-> 3, strategy |-> "null", value |-> "false"]
  /\ game.gamePhase = "selecting"
  /\ game.playerChoice = NullDoor
  /\ game.hostRevealedDoor = NullDoor

\* C24: stopSimulation() touches only the run in progress when it is called: a
\* run that returned and on which stopSimulation() was never called while it was
\* in progress has generated floor(totalGames / |strategies|) trials for each
\* requested strategy, whatever other runs were started, stopped or finished on
\* the same BatchSimulator, and its result holds the trials it generated itself.
C24_StopReachesOnlyItsRun ==
  \A r \in Runs :
    (run[r].pc = "returned" /\ ~hist[r].stopCalled) =>
      LET R == run[r]
          share == R.totalGames \div Len(R.strategies)
      IN  /\ \A k \in DOMAIN R.strategies :
               Len(R.results.data[R.strategies[k]].games) = share
          /\ hist[r].generated = share * Len(R.strategies)

\* the run generated all its trials and stopSimulation() was not called on it
GeneratedAll(r) ==
  /\ ~hist[r].stopCalled /\ ~hist[r].cancelSeen
  /\ hist[r].completeCalls = 1
  /\ hist[r].generated = Len(run[r].strategies) * (run[r].totalGames \div Len(run[r].strategies))

\* C25: a run started from the panel that generates all its trials without
\* being stopped ends on the success path: the completion handler returns,
\* runSimulation resolves, startBatchSimulation stores the result and leaves
\* the status, 'completed' by then, at 'ready', and the 'Simulation failed'
\* message is not shown.
C25_PanelSuccessPath ==
  [][\A r \in Runs :
       (ui.calls[r] = "awaiting" /\ ui'.calls[r] # "awaiting" /\ GeneratedAll(r)) =>
         /\ run[r].pc = "returned"
         /\ ui'.calls[r] = "resolved"
         /\ ui.status = "completed"
         /\ ui'.status = "ready"
         /\ ui'.currentSimulationResults = r
         /\ ui'.message # "Simulation failed"
  ]_vars

\* the chunks a strategy batch needs: ceil(gameCount / chunkSize)
ChunksNeeded(gameCount, chunkSize) == (gameCount + chunkSize - 1) \div chunkSize

\* C26: with every due timer and settled await eventually run, every run that
\* was started eventually returns or throws; it begins at most
\* ceil(floor(totalGames / |strategies|) / chunkSize) chunks per strategy; and
\* once stopSimulation() has been called on it, it begins no chunk that is
\* followed by a new sleep (it waits for no more than the delay pending at the stop).
C26_RunsTerminate ==
  /\ \A r \in Runs : InProgress(r) ~> Ended(r)
  /\ [](\A r \in Runs :
         InProgress(r) =>
           run[r].i \div run[r].chunkSize
             <= ChunksNeeded(run[r].totalGames \div Len(run[r].strategies), run[r].chunkSize))
  /\ [][\A r \in Runs :
          (hist[r].stopCalled /\ hist'[r].chunks # hist[r].chunks) => run'[r].pc # "sleeping"]_vars

\* totalGames, played, won and winRate of the lifetime stats agree
StatsConsistent(st) ==
  /\ st.totalGames = st.stay.played + st.switch.played
  /\ \A s \in Strategies :
       /\ 0 <= st[s].won /\ st[s].won <= st[s].played
       /\ IF st[s].played > 0
          THEN FracEq(st[s].winRate, Frac(st[s].won, st[s].played))
          ELSE FracEq(st[s].winRate, Frac(0, 1))

\* C30: after any sequence of recordGame and resetStats calls from the default
\* stats, totalGames = stay.played + switch.played, 0 <= won <= played per
\* strategy and winRate = won / played (0 when played = 0); a recordGame call
\* with a strategy other than 'stay' or 'switch' leaves the stats as they
\* were, and no step of a batch run changes them.
C30_LifetimeStats ==
  /\ [](StatsConsistent(stats))
  /\ [][((statsCall' # statsCall /\ statsCall'.call = "recordGame"
            /\ statsCall'.strategy \notin Strategies) => stats' = stats)
        /\ ((run' # run \/ hist' # hist \/ isRunning' # isRunning) => stats' = stats)
       ]_vars

C30_Witness ==
  /\ stats.totalGames = 2
  /\ stats.stay.played = 1 /\ stats.stay.won = 1
  /\ stats.switch.played = 1 /\ stats.switch.won = 0
  /\ statsCall = [call |-> "recordGame", strategy |-> "other", won |-> "true"]
  /\ run[1].pc = "returned" /\ hist[1].generated = 2

\* C27: in the game panel every game that reaches 'finished' is recorded in the
\* lifetime stats exactly once, by a recordGame call carrying its strategy and
\* outcome, and no unfinished game is recorded, under every interleaving of
\* door clicks, choices, resets and visibility changes that clear isAnimating
\* while handlers wait.
C27_FinishedGameRecordedOnce ==
  /\ game.gamePhase = "finished" =>
       /\ app.gameRecords = 1
       /\ app.lastRecord = [strategy |-> game.playerStrategy, won |-> game.won]
  /\ game.gamePhase # "finished" => app.gameRecords = 0
  /\ app.recordCalls = app.finishes
  /\ stats.totalGames = app.finishes

C27_Witness ==
  /\ game.gamePhase = "finished"
  /\ game.playerStrategy = "stay"
  /\ app.gameRecords = 1 /\ stats.totalGames = 1
  /\ app.clicks = 3
  /\ Len(app.handlers) = 2
  /\ app.handlers[1].kind = "handleChoice" /\ app.handlers[1].pc = "animateChoice"
  /\ app.handlers[1].strategy = "switch"
  /\ app.handlers[2].kind = "handleChoice" /\ app.handlers[2].pc = "animateFinalReveal"
  /\ app.handlers[2].strategy = "stay"

\* C28: in an uncancelled run the last onProgress event reports completed =
\* total and percentage = 100, and no event of the run reports completed >
\* total or percentage > 100.
C28_ProgressReachesTotal ==
  \A r \in Runs :
    Uncancelled(r) =>
      LET events == hist[r].progress
      IN  /\ \A k \in DOMAIN events :
               /\ events[k].completed <= events[k].total
               /\ FracLe(events[k].percentage, Frac(100, 1))
          /\ events # <<>> =>
               /\ Last(events).completed = Last(events).total
               /\ FracEq(Last(events).percentage, Frac(100, 1))

\* the k-th point of the history is within 5% of the theoretical value
Within5(history, theoretical, k) ==
  FracLe(PercentDeviation(history[k], theoretical), Frac(5, 1))

\* the maximal contiguous runs of points within 5%, as pairs of positions
StableRuns(history, theoretical) ==
  { ab \in (DOMAIN history) \X (DOMAIN history) :
      /\ ab[1] <= ab[2]
      /\ \A k \in ab[1]..ab[2] : Within5(history, theoretical, k)
      /\ ab[1] = 1 \/ ~Within5(history, theoretical, ab[1] - 1)
      /\ ab[2] = Len(history) \/ ~Within5(history, theoretical, ab[2] + 1) }

\* the longest of them, the earliest on ties, as (start, end, length)
LongestStableRun(history, theoretical) ==
  LET runs == StableRuns(history, theoretical)
  IN  IF runs = {} THEN [start |-> NullNumber, end |-> NullNumber, length |-> 0]
      ELSE LET best == CHOOSE ab \in runs :
                         \A cd \in runs :
                           \/ ab[2] - ab[1] > cd[2] - cd[1]
                           \/ ab[2] - ab[1] = cd[2] - cd[1] /\ ab[1] <= cd[1]
           IN  [start |-> history[best[1]].gameNumber,
                end |-> history[best[2]].gameNumber,
                length |-> best[2] - best[1] + 1]

\* C29: findConvergenceMilestones returns as longestStableStreak the longest
\* contiguous run of history points within 5% of the theoretical value (length
\* its number of points, start and end the gameNumbers of its first and last
\* point, the earliest run on ties, length 0 with null start and end when no
\* point is within 5%), and reads no index outside the history.
C29_LongestStableStreak ==
  milestones.result # <<>> =>
    LET result == milestones.result[1]
        history == milestones.history
    IN  /\ result.status = "ok"
        /\ result.reads \subseteq 0..(Len(history) - 1)
        /\ result.value[1].longestStableStreak =
             LongestStableRun(history, TheoreticalProbabilities(milestones.strategy))

C29_Witness ==
  /\ milestones.result # <<>>
  /\ milestones.strategy = "stay"
  /\ Len(milestones.history) = 4
  /\ milestones.history[1].wins = 1
  /\ milestones.history[2].wins = 1
  /\ milestones.history[3].wins = 3
  /\ milestones.history[4].wins = 3
  /\ milestones.result[1].value[1].longestStableStreak = [start |-> 3, end |-> 3, length |-> 1]

====
